---- MODULE Spec2Model ----
(***************************************************************************)
(* Model of the storefront's persistence layer and of the handlers that    *)
(* mutate it (telegram_bot/services.py, routes.py, models.py, db.py).      *)
(*                                                                         *)
(* The database is PostgreSQL at its default isolation level, READ         *)
(* COMMITTED (db.py builds the engine without an isolation_level).  Every  *)
(* handler invocation runs in a session of its own (get_db), so what a     *)
(* session has loaded is a private snapshot: ORM attributes are read once  *)
(* and later arithmetic is done on the loaded value.  A flush writes       *)
(* absolute column values ("SET balance_usd = <value>"), and only for the  *)
(* attributes whose value differs from the loaded one.                     *)
(*                                                                         *)
(* Every "await" of a handler is a point where other handlers run          *)
(* (ApplicationBuilder().concurrent_updates(True), bot.py).  Each action   *)
(* below is the code between two awaits together with the statement the    *)
(* await executes.  flush + COMMIT inside one "await db.commit()" is one   *)
(* step: the row locks taken by the flush only delay other writers until   *)
(* the COMMIT.                                                             *)
(*                                                                         *)
(* Money is kept in whole units (the Float columns hold small integers).   *)
(***************************************************************************)
EXTENDS Integers, Sequences, FiniteSets

\* ------------------------------------------------------------------ bounds
\* handler invocations (updates) that run, possibly at once
NumProcs == 2
\* units uploaded to the store
NumUnits == 2

\* entries of a codes_list handed to add_codes
MaxLen == 2

\* the NULL of a nullable column (approved_at)
None == 0

\* the registered users, the catalogue and the inputs the handlers are given
Users == 1..2
Products == 1..2
Units == 1..NumUnits
Procs == 1..NumProcs
\* product ids a buy button may carry: the catalogue's and one with no row
ProductIds == Products \cup {3}
\* balances the users hold when the handlers start
InitBalances == 0..2
\* amounts an admin may pass to approve_topup: the code accepts any float
Amounts == {0 - 1, 0, 1}
Admins == {1}
\* requests in the topups table: one approved per user and one more
MaxTopUps == Cardinality(Users) + 1
TopUpIds == 1..MaxTopUps
\* prices a product row may carry
Prices == 1..2
\* User.language values the language menu offers (two of them)
Langs == {"en", "ru"}
\* ids ban_user may be given: the users' and one with no row
UserIds == Users \cup {3}
\* order ids a delivery button may carry
OrderIds == 1..NumUnits
Methods == {"text", "file"}

\* ProductCode.product_id: the units are dealt to the products in turn
code_product(code_id) == ((code_id - 1) % Cardinality(Products)) + 1

\* ProductCode.code of the units: strings are sequences of characters, and
\* unit c was uploaded with the payload of c letters "a"
unit_code(code_id) == [i \in 1..code_id |-> "a"]

\* code strings an upload may hold: blank, in the store already, new, and
\* the new one padded with whitespace
RawCodes == {<<" ">>, <<"a">>, <<"b">>, <<" ", "b", " ">>}
CodeLists == UNION {[1..n -> RawCodes] : n \in 0..MaxLen}

\* str.strip(): the string without its leading and trailing whitespace
RECURSIVE lstrip(_)
lstrip(str) ==
    IF str # << >> /\ Head(str) = " " THEN lstrip(Tail(str)) ELSE str
RECURSIVE rstrip(_)
rstrip(str) ==
    IF str # << >> /\ str[Len(str)] = " "
    THEN rstrip(SubSeq(str, 1, Len(str) - 1))
    ELSE str
strip(str) == rstrip(lstrip(str))

VARIABLES
    products,      \* the products table, committed: price_usd and is_active
    language,      \* users.language, committed
    is_banned,     \* users.is_banned, committed
    balance_usd,   \* users.balance_usd, committed
    is_sold,       \* product_codes.is_sold, committed
    orders,        \* the orders table, committed; Order.id is the index
    topups,        \* the topups table, committed; TopUp.id is the index
    logs,          \* the admin_action_logs table, committed
    product_codes, \* the product_codes rows add_codes inserted, committed
    users,         \* the users rows get_or_create_user inserted, committed
    locked,        \* row locks on product_codes: the holding session, or 0
    row_locks,     \* row locks on users and topups taken by an UPDATE: the
                   \* holding session, or 0
    pc,            \* where each handler invocation stands
    sess,          \* what each invocation's session has loaded / its arguments
    result         \* what each invocation returned

vars == <<products, language, is_banned, balance_usd, is_sold, orders, topups,
          logs, product_codes, users, locked, row_locks, pc, sess, result>>
db == <<products, language, is_banned, balance_usd, is_sold, orders, topups, logs,
        product_codes, users>>

\* Product.price_usd and Product.is_active of a product row
price_usd(product_id) == products[product_id].price_usd
is_active(product_id) == product_id \in Products /\ products[product_id].is_active

NoSess == [kind |-> "none", user |-> 0, bal |-> 0, product |-> 0, price |-> 0,
           code |-> 0, topup |-> 0, amount |-> 0, admin |-> 0, stamp |-> 0,
           order |-> 0, method |-> "none", lang |-> "none", error_key |-> "none",
           fault |-> FALSE, calls |-> << >>, raised |-> "none", notified |-> "none",
           codes_list |-> << >>, new_codes |-> << >>, count |-> 0, pos |-> 0,
           total_orders |-> 0, total_spent |-> 0, total_topup |-> 0,
           renamed |-> FALSE, strings |-> << >>, key |-> "none", text |-> "none",
           username |-> "none", is_banned |-> FALSE, running |-> FALSE,
           updater_running |-> FALSE]

\* datetime.datetime.utcnow(): a value later than every stamp recorded so far
utcnow == Len(orders) + Len(logs) + 1

\* AdminActionLog row written by approve_topup
ApprovedLog(admin_id, topup_id, amount) ==
    [admin_id |-> admin_id, action |-> "admin_log_topup_approved",
     topup |-> topup_id, amount |-> amount]

\* TopUp row after create_topup_request
PendingTopUp(user_id) ==
    [user_id |-> user_id, amount_usd |-> 0, status |-> "pending", approved_at |-> None]

\* The state after construction and first use: every user is registered with
\* the default language and not banned, every product was added active
\* (product 1 costs 1, product 2 costs 2), every unit is uploaded and unsold,
\* no order exists, and each user's balance b was credited by one approved
\* top-up of amount b (request u, approved in turn).
\* no UPDATE of a users or topups row is waiting for its commit
NoRowLocks == [users |-> [u \in Users |-> 0], topups |-> [t \in TopUpIds |-> 0]]

Init ==
    /\ products = [i \in Products |-> [price_usd |-> i, is_active |-> TRUE]]
    /\ language = [u \in Users |-> "en"]
    /\ is_banned = [u \in Users |-> FALSE]
    /\ balance_usd \in [Users -> InitBalances]
    /\ is_sold = [c \in Units |-> FALSE]
    /\ orders = << >>
    /\ topups = [u \in Users |-> [user_id |-> u, amount_usd |-> balance_usd[u],
                                  status |-> "approved", approved_at |-> u]]
    /\ logs = [u \in Users |-> ApprovedLog(1, u, balance_usd[u])]
    /\ product_codes = << >>
    /\ users = << >>
    /\ locked = [c \in Units |-> 0]
    /\ row_locks = NoRowLocks
    /\ pc = [p \in Procs |-> "start"]
    /\ sess = [p \in Procs |-> NoSess]
    /\ result = [p \in Procs |-> "none"]

\* the handler returns: get_db commits nothing further and closes the session
Return(p, r) ==
    /\ pc' = [pc EXCEPT ![p] = "done"]
    /\ result' = [result EXCEPT ![p] = r]

\* the UPDATE users a flush emits for a session that loaded `loaded` and now
\* holds `new`: an absolute value, and none when the attribute is unchanged
FlushBalance(user_id, loaded, new) ==
    IF new = loaded THEN balance_usd ELSE [balance_usd EXCEPT ![user_id] = new]

\* ProductService.get_stock_count
get_stock_count(product_id) ==
    Cardinality({c \in Units : code_product(c) = product_id /\ ~is_sold[c]})

\* ------------------------------------------------------------ purchase flow
\* initiate_purchase: UserService.get_user_by_telegram_id loads the user row;
\* with no row it returns None and "lang = user.language" raises inside the
\* get_db block
GetUser(p, telegram_id, product_id) ==
    /\ pc[p] = "start"
    /\ IF telegram_id \in Users
       THEN /\ pc' = [pc EXCEPT ![p] = "got_user"]
            /\ sess' = [sess EXCEPT ![p] = [NoSess EXCEPT !.kind = "purchase",
                                                          !.user = telegram_id,
                                                          !.product = product_id,
                                                          !.bal = balance_usd[telegram_id],
                                                          !.is_banned = is_banned[telegram_id]]]
       ELSE /\ pc' = [pc EXCEPT ![p] = "db_raised"]
            /\ sess' = [sess EXCEPT ![p] = [NoSess EXCEPT !.kind = "purchase",
                                                          !.user = telegram_id,
                                                          !.product = product_id,
                                                          !.raised = "AttributeError"]]
    /\ UNCHANGED <<db, locked, row_locks, result>>

\* the price attribute of the Product object get_product returns (0: no row)
LoadedPrice(product_id) ==
    IF product_id \in Products THEN price_usd(product_id) ELSE 0

\* initiate_purchase: ProductService.get_product, the validation, and
\* create_order's balance check on the loaded objects; error_key is what
\* create_order returned to the handler ("none": it was not called)
MutGetProduct(p) ==
    /\ pc[p] = "got_user"
    /\ IF sess[p].product \in Products /\ sess[p].bal < price_usd(sess[p].product)
       THEN /\ Return(p, "insufficient_balance")
            /\ sess' = [sess EXCEPT ![p].price = price_usd(sess[p].product),
                                    ![p].error_key = "insufficient_balance"]
       ELSE IF ~(sess[p].product \in Products /\ is_active(sess[p].product))
       THEN /\ Return(p, "out_of_stock")
            /\ sess' = [sess EXCEPT ![p].price = LoadedPrice(sess[p].product)]
       ELSE /\ pc' = [pc EXCEPT ![p] = "in_order"]
            /\ sess' = [sess EXCEPT ![p].price = price_usd(sess[p].product)]
            /\ UNCHANGED result
    /\ UNCHANGED <<db, locked, row_locks>>
GetProduct(p) ==
    /\ pc[p] = "got_user"
    /\ IF ~(sess[p].product \in Products /\ is_active(sess[p].product))
       THEN /\ Return(p, "out_of_stock")
            /\ sess' = [sess EXCEPT ![p].price = LoadedPrice(sess[p].product)]
       ELSE IF sess[p].bal < price_usd(sess[p].product)
       THEN /\ Return(p, "insufficient_balance")
            /\ sess' = [sess EXCEPT ![p].price = price_usd(sess[p].product),
                                    ![p].error_key = "insufficient_balance"]
       ELSE /\ pc' = [pc EXCEPT ![p] = "in_order"]
            /\ sess' = [sess EXCEPT ![p].price = price_usd(sess[p].product)]
            /\ UNCHANGED result
    /\ UNCHANGED <<db, locked, row_locks>>

\* rows the SELECT ... FOR UPDATE SKIP LOCKED of session p can return
MutEligibleCodes(p) ==
    {c \in Units : code_product(c) = sess[p].product /\ ~is_sold[c]}
EligibleCodes(p) ==
    {c \in Units : /\ code_product(c) = sess[p].product
                   /\ ~is_sold[c]
                   /\ locked[c] \in {0, p}}

\* create_order: select(ProductCode)...with_for_update(skip_locked=True).limit(1)
MutWaitSelectCode(p) ==
    /\ pc[p] = "in_order"
    /\ \A c \in Units :
         (code_product(c) = sess[p].product /\ ~is_sold[c]) => locked[c] \in {0, p}
    /\ IF EligibleCodes(p) = {}
       THEN /\ Return(p, "out_of_stock")
            /\ sess' = [sess EXCEPT ![p].error_key = "out_of_stock"]
            /\ UNCHANGED <<locked, row_locks>>
       ELSE \E c \in EligibleCodes(p) :
              /\ locked' = [locked EXCEPT ![c] = p]
              /\ UNCHANGED row_locks
              /\ sess' = [sess EXCEPT ![p].code = c]
              /\ pc' = [pc EXCEPT ![p] = "locked"]
              /\ UNCHANGED result
    /\ UNCHANGED db
MutSelectCode(p) ==
    /\ pc[p] = "in_order"
    /\ IF EligibleCodes(p) = {}
       THEN /\ Return(p, "out_of_stock")
            /\ sess' = [sess EXCEPT ![p].error_key = "out_of_stock"]
            /\ balance_usd' = FlushBalance(sess[p].user, sess[p].bal,
                                           sess[p].bal - sess[p].price)
            /\ UNCHANGED <<locked, row_locks>>
       ELSE \E c \in EligibleCodes(p) :
              /\ locked' = [locked EXCEPT ![c] = p]
              /\ UNCHANGED row_locks
              /\ sess' = [sess EXCEPT ![p].code = c]
              /\ pc' = [pc EXCEPT ![p] = "locked"]
              /\ UNCHANGED <<result, balance_usd>>
    /\ UNCHANGED <<users, product_codes, products, language, is_banned, is_sold,
                   orders, topups, logs>>
SelectCode(p) ==
    /\ pc[p] = "in_order"
    /\ IF EligibleCodes(p) = {}
       THEN /\ Return(p, "out_of_stock")
            /\ sess' = [sess EXCEPT ![p].error_key = "out_of_stock"]
            /\ UNCHANGED <<locked, row_locks>>
       ELSE \E c \in EligibleCodes(p) :
              /\ locked' = [locked EXCEPT ![c] = p]
              /\ UNCHANGED row_locks
              /\ sess' = [sess EXCEPT ![p].code = c]
              /\ pc' = [pc EXCEPT ![p] = "locked"]
              /\ UNCHANGED result
    /\ UNCHANGED db

\* ROLLBACK / COMMIT releases the session's row locks
MutRelease(p) == locked
Release(p) == [c \in Units |-> IF locked[c] = p THEN 0 ELSE locked[c]]

\* the Order row create_order inserts
MutNewOrder(p) ==
    [user_id |-> sess[p].user, product_id |-> sess[p].product,
     product_code_id |-> sess[p].code, price_usd |-> sess[p].bal,
     delivery_type |-> "text", status |-> "completed"]
MutCurrentPriceOrder(p) ==
    [user_id |-> sess[p].user, product_id |-> sess[p].product,
     product_code_id |-> sess[p].code, price_usd |-> price_usd(sess[p].product),
     delivery_type |-> "text", status |-> "completed"]
NewOrder(p) ==
    [user_id |-> sess[p].user, product_id |-> sess[p].product,
     product_code_id |-> sess[p].code, price_usd |-> sess[p].price,
     delivery_type |-> "text", status |-> "completed"]

\* unique=True on orders.product_code_id
UniqueCodeViolated(order) ==
    \E i \in DOMAIN orders : orders[i].product_code_id = order.product_code_id

\* product_codes after "code.is_sold = True"
MutMarkSold(code_id) == is_sold
MarkSold(code_id) == [is_sold EXCEPT ![code_id] = TRUE]

\* create_order, lines 195-215: debit, mark sold, insert the order, commit.
\* The price is the attribute of the Product object the handler loaded.
CommitOrder(p) ==
    /\ pc[p] = "locked"
    /\ locked' = Release(p)
    /\ UNCHANGED row_locks
    /\ UNCHANGED <<users, product_codes, products, language, is_banned, topups,
                   logs>>
    /\ IF UniqueCodeViolated(NewOrder(p))
       THEN \* IntegrityError: the except branch rolls back
            /\ Return(p, "generic_error")
            /\ sess' = [sess EXCEPT ![p].error_key = "generic_error"]
            /\ UNCHANGED <<balance_usd, is_sold, orders>>
       ELSE /\ balance_usd' = FlushBalance(sess[p].user, sess[p].bal,
                                           sess[p].bal - sess[p].price)
            /\ is_sold' = MarkSold(sess[p].code)
            /\ orders' = Append(orders, NewOrder(p))
            /\ sess' = [sess EXCEPT ![p].error_key = "success"]
            /\ Return(p, "success")

\* create_order, lines 217-220: the storage fails at the commit
MutPartialCommitFails(p) ==
    /\ pc[p] = "locked"
    /\ locked' = Release(p)
    /\ UNCHANGED row_locks
    /\ sess' = [sess EXCEPT ![p].fault = TRUE, ![p].error_key = "generic_error"]
    /\ is_sold' = MarkSold(sess[p].code)
    /\ Return(p, "generic_error")
    /\ UNCHANGED <<users, product_codes, products, language, is_banned,
                   balance_usd, orders, topups, logs>>
CommitOrderFails(p) ==
    /\ pc[p] = "locked"
    /\ locked' = Release(p)
    /\ UNCHANGED row_locks
    /\ sess' = [sess EXCEPT ![p].fault = TRUE, ![p].error_key = "generic_error"]
    /\ Return(p, "generic_error")
    /\ UNCHANGED db

\* create_order, lines 211-220: the commit goes through and "await
\* db.refresh(order)" raises; the except branch rolls back a transaction that
\* holds nothing any more and reports generic_error
RefreshFails(p) ==
    /\ pc[p] = "locked"
    /\ ~UniqueCodeViolated(NewOrder(p))
    /\ locked' = Release(p)
    /\ UNCHANGED row_locks
    /\ balance_usd' = FlushBalance(sess[p].user, sess[p].bal,
                                   sess[p].bal - sess[p].price)
    /\ is_sold' = MarkSold(sess[p].code)
    /\ orders' = Append(orders, NewOrder(p))
    /\ sess' = [sess EXCEPT ![p].fault = TRUE, ![p].error_key = "generic_error"]
    /\ Return(p, "generic_error")
    /\ UNCHANGED <<users, product_codes, products, language, is_banned, topups,
                   logs>>

\* initiate_purchase, lines 268 and 289-301: create_order commits and
\* returns success, then the send of the "choose delivery" message raises
\* (the edit and its fallback); the exception leaves the get_db block
MutCommitOrderReplyFails(p) ==
    /\ pc[p] = "locked"
    /\ ~UniqueCodeViolated(NewOrder(p))
    /\ locked' = Release(p)
    /\ sess' = [sess EXCEPT ![p].error_key = "success",
                            ![p].raised = "TelegramError"]
    /\ pc' = [pc EXCEPT ![p] = "db_raised"]
    /\ UNCHANGED <<db, row_locks, result>>
CommitOrderReplyFails(p) ==
    /\ pc[p] = "locked"
    /\ ~UniqueCodeViolated(NewOrder(p))
    /\ locked' = Release(p)
    /\ balance_usd' = FlushBalance(sess[p].user, sess[p].bal,
                                   sess[p].bal - sess[p].price)
    /\ is_sold' = MarkSold(sess[p].code)
    /\ orders' = Append(orders, NewOrder(p))
    /\ sess' = [sess EXCEPT ![p].error_key = "success",
                            ![p].raised = "TelegramError"]
    /\ pc' = [pc EXCEPT ![p] = "db_raised"]
    /\ UNCHANGED <<users, product_codes, products, language, is_banned, topups,
                   logs, row_locks, result>>

\* ------------------------------------------------------------ delivery flow
\* deliver_order: OrderService.get_order
GetOrder(p, telegram_id, order_id, method) ==
    /\ pc[p] = "start"
    /\ sess' = [sess EXCEPT ![p] = [NoSess EXCEPT !.kind = "deliver",
                                                  !.user = telegram_id,
                                                  !.order = order_id,
                                                  !.method = method]]
    /\ IF order_id \in DOMAIN orders
       THEN pc' = [pc EXCEPT ![p] = "dl_order"] /\ UNCHANGED result
       ELSE Return(p, "order_not_found")
    /\ UNCHANGED <<db, locked, row_locks>>

\* deliver_order: the user and the unit's payload are read, the payload and
\* the receipt are sent; the session holds no change when get_db commits
MutSendOrder(p) ==
    /\ pc[p] = "dl_order"
    /\ sess' = [sess EXCEPT ![p].code = orders[sess[p].order].product_code_id,
                            ![p].price = orders[sess[p].order].price_usd,
                            ![p].lang = language[sess[p].user]]
    /\ orders' = [orders EXCEPT ![sess[p].order].delivery_type = sess[p].method]
    /\ Return(p, "delivered")
    /\ UNCHANGED <<users, product_codes, products, language, is_banned,
                   balance_usd, is_sold, topups, logs, locked, row_locks>>
SendOrder(p) ==
    /\ pc[p] = "dl_order"
    /\ sess' = [sess EXCEPT ![p].code = orders[sess[p].order].product_code_id,
                            ![p].price = orders[sess[p].order].price_usd,
                            ![p].lang = language[sess[p].user]]
    /\ Return(p, "delivered")
    /\ UNCHANGED <<db, locked, row_locks>>

\* deliver_order: the payload is read and a send to the chat raises (the
\* edit and its fallback, or the receipt); the exception leaves the get_db
\* block
MutSendOrderFails(p) ==
    /\ pc[p] = "dl_order"
    /\ sess' = [sess EXCEPT ![p].code = orders[sess[p].order].product_code_id,
                            ![p].price = orders[sess[p].order].price_usd,
                            ![p].lang = language[sess[p].user],
                            ![p].raised = "TelegramError"]
    /\ pc' = [pc EXCEPT ![p] = "db_raised"]
    /\ is_sold' = [is_sold EXCEPT ![orders[sess[p].order].product_code_id] = FALSE]
    /\ UNCHANGED <<users, product_codes, products, language, is_banned,
                   balance_usd, orders, topups, logs, locked, row_locks,
                   result>>
SendOrderFails(p) ==
    /\ pc[p] = "dl_order"
    /\ sess' = [sess EXCEPT ![p].code = orders[sess[p].order].product_code_id,
                            ![p].price = orders[sess[p].order].price_usd,
                            ![p].lang = language[sess[p].user],
                            ![p].raised = "TelegramError"]
    /\ pc' = [pc EXCEPT ![p] = "db_raised"]
    /\ UNCHANGED <<db, locked, row_locks, result>>

\* ------------------------------------------------------------- user settings
\* start: UserService.get_or_create_user finds the user's row; renamed tells
\* whether the chat's username differs from the stored one
StartSelectUser(p, telegram_id, renamed) ==
    /\ pc[p] = "start"
    /\ sess' = [sess EXCEPT ![p] = [NoSess EXCEPT !.kind = "start",
                                                  !.user = telegram_id,
                                                  !.bal = balance_usd[telegram_id],
                                                  !.lang = language[telegram_id],
                                                  !.renamed = renamed]]
    /\ IF renamed
       THEN pc' = [pc EXCEPT ![p] = "gu_user"] /\ UNCHANGED result
       ELSE Return(p, "welcome")
    /\ UNCHANGED <<db, locked, row_locks>>

\* get_or_create_user, lines 67-70: "user.username = username" and the
\* commit, which writes the username column alone
CommitUsername(p) ==
    /\ pc[p] = "gu_user"
    /\ balance_usd' = FlushBalance(sess[p].user, sess[p].bal, sess[p].bal)
    /\ Return(p, "welcome")
    /\ UNCHANGED <<users, products, language, is_banned, is_sold, orders,
                   topups, logs, product_codes, locked, row_locks, sess>>

\* chat ids that contact the bot for the first time, and the usernames
\* Telegram reports for them
Contacts == {3, 4}
Usernames == {"a", "b"}

\* the rows of users with this telegram_id
UserRows(telegram_id) == {i \in DOMAIN users : users[i].telegram_id = telegram_id}

\* get_or_create_user, lines 50-54 and 66-71: the SELECT by telegram_id; a
\* user found with the same username is returned as it is
SelectUser(p, telegram_id, username) ==
    /\ pc[p] = "start"
    /\ sess' = [sess EXCEPT ![p] = [NoSess EXCEPT !.kind = "get_or_create_user",
                                                  !.user = telegram_id,
                                                  !.username = username]]
    /\ IF UserRows(telegram_id) = {}
       THEN pc' = [pc EXCEPT ![p] = "gu_insert"] /\ UNCHANGED result
       ELSE IF \E i \in UserRows(telegram_id) : users[i].username # username
            THEN pc' = [pc EXCEPT ![p] = "gu_rename"] /\ UNCHANGED result
            ELSE Return(p, "user")
    /\ UNCHANGED <<db, locked, row_locks>>

\* get_or_create_user, lines 56-64 and 72-75: the new User with balance 0 is
\* added and committed; the unique index on users.telegram_id rejects the
\* INSERT when a row with this telegram_id was committed meanwhile, and the
\* except branch rolls back and re-raises
CommitNewUser(p) ==
    /\ pc[p] = "gu_insert"
    /\ IF UserRows(sess[p].user) # {}
       THEN /\ Return(p, "IntegrityError")
            /\ UNCHANGED users
       ELSE /\ users' = Append(users, [telegram_id |-> sess[p].user,
                                       username |-> sess[p].username,
                                       balance_usd |-> 0])
            /\ Return(p, "user")
    /\ UNCHANGED <<products, language, is_banned, balance_usd, is_sold, orders,
                   topups, logs, product_codes, locked, row_locks, sess>>

\* get_or_create_user, lines 67-70: the changed username is committed
CommitRename(p) ==
    /\ pc[p] = "gu_rename"
    /\ users' = [i \in DOMAIN users |->
                   IF users[i].telegram_id = sess[p].user
                   THEN [users[i] EXCEPT !.username = sess[p].username]
                   ELSE users[i]]
    /\ Return(p, "user")
    /\ UNCHANGED <<products, language, is_banned, balance_usd, is_sold, orders,
                   topups, logs, product_codes, locked, row_locks, sess>>

\* --------------------------------------------------------------- statistics
RECURSIVE SumTo(_, _)
SumTo(f, n) == IF n = 0 THEN 0 ELSE f[n] + SumTo(f, n - 1)

\* sum of the prices of the user's orders
Spent(user_id) ==
    SumTo([i \in DOMAIN orders |->
             IF orders[i].user_id = user_id THEN orders[i].price_usd ELSE 0],
          Len(orders))

\* sum of the amounts of the user's approved top-ups
Credited(user_id) ==
    SumTo([i \in DOMAIN topups |->
             IF topups[i].user_id = user_id /\ topups[i].status = "approved"
             THEN topups[i].amount_usd ELSE 0],
          Len(topups))

\* statistics_menu: get_user_by_telegram_id loads the user row, balance
\* included; the SELECT of get_user_statistics returns the same object
StatsGetUser(p, telegram_id) ==
    /\ pc[p] = "start"
    /\ sess' = [sess EXCEPT ![p] = [NoSess EXCEPT !.kind = "statistics",
                                                  !.user = telegram_id,
                                                  !.bal = balance_usd[telegram_id],
                                                  !.lang = language[telegram_id],
                                                  !.stamp = utcnow]]
    /\ pc' = [pc EXCEPT ![p] = "st_user"]
    /\ UNCHANGED <<db, locked, row_locks, result>>

\* select(func.count()).select_from(Order).where(Order.user_id == user.id)
MutCountOrders(user_id) == Len(orders)
CountOrders(user_id) ==
    Cardinality({i \in DOMAIN orders : orders[i].user_id = user_id})

\* get_user_statistics, lines 267-270: the count of the user's orders
SelectCount(p) ==
    /\ pc[p] = "st_user"
    /\ sess' = [sess EXCEPT ![p].total_orders = CountOrders(sess[p].user)]
    /\ pc' = [pc EXCEPT ![p] = "st_count"]
    /\ UNCHANGED <<db, locked, row_locks, result>>

\* get_user_statistics, lines 272-275: the sum of the user's order prices
SelectSpent(p) ==
    /\ pc[p] = "st_count"
    /\ sess' = [sess EXCEPT ![p].total_spent = Spent(sess[p].user)]
    /\ pc' = [pc EXCEPT ![p] = "st_spent"]
    /\ UNCHANGED <<db, locked, row_locks, result>>

\* get_user_statistics, lines 277-303: the sum of the user's approved
\* top-ups, and the text: no history, or the four figures
SelectTopUps(p) ==
    /\ pc[p] = "st_spent"
    /\ LET total_topup == Credited(sess[p].user)
       IN  /\ sess' = [sess EXCEPT ![p].total_topup = total_topup]
           /\ IF sess[p].total_orders = 0 /\ total_topup = 0
              THEN Return(p, "stats_no_history")
              ELSE Return(p, "stats")
    /\ UNCHANGED <<db, locked, row_locks>>

\* UserService.set_language: the SELECT of the user
SelectLanguageUser(p, telegram_id, lang_code) ==
    /\ pc[p] = "start"
    /\ sess' = [sess EXCEPT ![p] = [NoSess EXCEPT !.kind = "language",
                                                  !.user = telegram_id,
                                                  !.bal = balance_usd[telegram_id],
                                                  !.lang = lang_code]]
    /\ pc' = [pc EXCEPT ![p] = "lang_user"]
    /\ UNCHANGED <<db, locked, row_locks, result>>

\* UserService.set_language: "user.language = lang_code" and the commit, which
\* writes the language column alone
CommitLanguage(p) ==
    /\ pc[p] = "lang_user"
    /\ language' = [language EXCEPT ![sess[p].user] = sess[p].lang]
    /\ Return(p, "None")
    /\ UNCHANGED <<users, product_codes, products, is_banned, balance_usd,
                   is_sold, orders, topups, logs, locked, row_locks, sess>>

\* AdminActionLog row written by ban_user
BannedLog(admin_id, user_id) ==
    [admin_id |-> admin_id, action |-> "admin_log_banned_user",
     topup |-> user_id, amount |-> 0]

\* AdminService.ban_user: the SELECT of the target and "if user"
SelectBanUser(p, target_user_id, admin_id) ==
    /\ pc[p] = "start"
    /\ sess' = [sess EXCEPT ![p] = [NoSess EXCEPT !.kind = "ban",
                                                  !.user = target_user_id,
                                                  !.admin = admin_id]]
    /\ IF target_user_id \in Users
       THEN pc' = [pc EXCEPT ![p] = "ban_user"] /\ UNCHANGED result
       ELSE Return(p, "None")
    /\ UNCHANGED <<db, locked, row_locks>>

\* AdminService.ban_user: the flag, the log entry and the commit
MutCommitBan(p) ==
    /\ pc[p] = "ban_user"
    /\ is_banned' = [is_banned EXCEPT ![sess[p].user] = TRUE]
    /\ Return(p, "None")
    /\ UNCHANGED <<users, product_codes, products, language, balance_usd,
                   is_sold, orders, topups, logs, locked, row_locks, sess>>
CommitBan(p) ==
    /\ pc[p] = "ban_user"
    /\ is_banned' = [is_banned EXCEPT ![sess[p].user] = TRUE]
    /\ logs' = Append(logs, BannedLog(sess[p].admin, sess[p].user))
    /\ Return(p, "None")
    /\ UNCHANGED <<users, product_codes, products, language, balance_usd,
                   is_sold, orders, topups, locked, row_locks, sess>>

\* ------------------------------------------------- catalogue administration
\* the admin collaborator sets a product's price (an UPDATE of the row)
SetPrice(p, product_id, price) ==
    /\ pc[p] = "start"
    /\ price # price_usd(product_id)
    /\ products' = [products EXCEPT ![product_id].price_usd = price]
    /\ sess' = [sess EXCEPT ![p] = [NoSess EXCEPT !.kind = "set_price",
                                                  !.product = product_id,
                                                  !.price = price,
                                                  !.stamp = utcnow]]
    /\ Return(p, "None")
    /\ UNCHANGED <<users, product_codes, language, is_banned, balance_usd,
                   is_sold, orders, topups, logs, locked, row_locks>>

\* the admin collaborator deactivates a product
Deactivate(p, product_id) ==
    /\ pc[p] = "start"
    /\ is_active(product_id)
    /\ products' = [products EXCEPT ![product_id].is_active = FALSE]
    /\ sess' = [sess EXCEPT ![p] = [NoSess EXCEPT !.kind = "deactivate",
                                                  !.product = product_id]]
    /\ Return(p, "None")
    /\ UNCHANGED <<users, product_codes, language, is_banned, balance_usd,
                   is_sold, orders, topups, logs, locked, row_locks>>

\* ------------------------------------------------------------- top-up flow
\* PaymentService.create_topup_request for a registered user
CreateTopUpRequest(telegram_id) ==
    /\ Len(topups) < MaxTopUps
    /\ topups' = Append(topups, PendingTopUp(telegram_id))
    /\ UNCHANGED <<users, product_codes, products, language, is_banned,
                   balance_usd, is_sold, orders, logs, locked, row_locks, pc,
                   sess, result>>

\* "if topup and topup.status == TopUpStatus.PENDING"
MutIsPending(topup_id) == topup_id \in DOMAIN topups
IsPending(topup_id) ==
    topup_id \in DOMAIN topups /\ topups[topup_id].status = "pending"

\* approve_topup: the SELECT of the request and the test of its status
SelectTopUp(p, topup_id, admin_id, actual_amount) ==
    /\ pc[p] = "start"
    /\ sess' = [sess EXCEPT ![p] = [NoSess EXCEPT !.kind = "approve",
                                                  !.topup = topup_id,
                                                  !.amount = actual_amount,
                                                  !.admin = admin_id,
                                                  !.stamp = utcnow]]
    /\ IF IsPending(topup_id)
       THEN pc' = [pc EXCEPT ![p] = "ap_pending"] /\ UNCHANGED result
       ELSE Return(p, "False")
    /\ UNCHANGED <<db, locked, row_locks>>

\* approve_topup: topup.user loads the owner's row
LoadTopUpUser(p) ==
    /\ pc[p] = "ap_pending"
    /\ pc' = [pc EXCEPT ![p] = "ap_user"]
    /\ sess' = [sess EXCEPT ![p].user = topups[sess[p].topup].user_id,
                            ![p].bal = balance_usd[topups[sess[p].topup].user_id]]
    /\ UNCHANGED <<db, locked, row_locks, result>>

\* approve_topup: the commit of the request, the credit and the log entry
CommitApprove(p) ==
    /\ pc[p] = "ap_user"
    /\ topups' = [topups EXCEPT ![sess[p].topup] =
                     [@ EXCEPT !.amount_usd = sess[p].amount,
                               !.status = "approved",
                               !.approved_at = sess[p].stamp]]
    /\ balance_usd' = FlushBalance(sess[p].user, sess[p].bal,
                                   sess[p].bal + sess[p].amount)
    /\ logs' = Append(logs, ApprovedLog(sess[p].admin, sess[p].topup, sess[p].amount))
    /\ Return(p, "True")
    /\ UNCHANGED <<users, product_codes, products, language, is_banned, is_sold,
                   orders, locked, row_locks, sess>>

\* ------------------------------------------------- row locks of the commit
\* db.commit() flushes the session's changes as UPDATE and INSERT statements
\* and then commits.  An UPDATE takes the lock of its row and waits while
\* another open transaction holds it; the COMMIT or ROLLBACK releases every
\* lock of the transaction.  The actions below split the commits of
\* create_order and approve_topup into these statements.

\* the row locks after session p has committed or rolled back
ReleaseRows(p) ==
    [users |-> [u \in Users |->
                  IF row_locks.users[u] = p THEN 0 ELSE row_locks.users[u]],
     topups |-> [t \in TopUpIds |->
                  IF row_locks.topups[t] = p THEN 0 ELSE row_locks.topups[t]]]

\* the tables approve_topup's flush updates, in the order of the statements:
\* the unit of work saves User before TopUp, which references it
MutFlushSequence(p) ==
    IF p = 1 THEN <<"users", "topups">> ELSE <<"topups", "users">>
FlushSequence(p) == <<"users", "topups">>

\* create_order, line 211: the flush of the commit.  UPDATE users SET
\* balance_usd waits for the user's row; the UPDATE of the unit (locked by
\* the SELECT already) and the INSERT of the order wait for nothing.
FlushOrder(p) ==
    /\ pc[p] = "locked"
    /\ row_locks.users[sess[p].user] = 0
    /\ row_locks' = [row_locks EXCEPT !.users[sess[p].user] = p]
    /\ pc' = [pc EXCEPT ![p] = "fl_order"]
    /\ UNCHANGED <<db, locked, sess, result>>

\* create_order, lines 211-215: the COMMIT after the flush, with the effects
\* of CommitOrder
CommitFlushedOrder(p) ==
    /\ pc[p] = "fl_order"
    /\ locked' = Release(p)
    /\ row_locks' = ReleaseRows(p)
    /\ UNCHANGED <<users, product_codes, products, language, is_banned, topups,
                   logs>>
    /\ IF UniqueCodeViolated(NewOrder(p))
       THEN /\ Return(p, "generic_error")
            /\ sess' = [sess EXCEPT ![p].error_key = "generic_error"]
            /\ UNCHANGED <<balance_usd, is_sold, orders>>
       ELSE /\ balance_usd' = FlushBalance(sess[p].user, sess[p].bal,
                                           sess[p].bal - sess[p].price)
            /\ is_sold' = MarkSold(sess[p].code)
            /\ orders' = Append(orders, NewOrder(p))
            /\ sess' = [sess EXCEPT ![p].error_key = "success"]
            /\ Return(p, "success")

\* approve_topup, line 420: one statement of the flush.  sess[p].pos counts
\* the statements done; the UPDATE of the user is issued only when the
\* balance attribute changed.
FlushApprove(p) ==
    /\ pc[p] \in {"ap_user", "fl_approve"}
    /\ sess[p].pos < Len(FlushSequence(p))
    /\ LET table == FlushSequence(p)[sess[p].pos + 1]
       IN  IF table = "users"
           THEN IF sess[p].amount = 0
                THEN UNCHANGED row_locks
                ELSE /\ row_locks.users[sess[p].user] = 0
                     /\ row_locks' = [row_locks EXCEPT !.users[sess[p].user] = p]
           ELSE /\ row_locks.topups[sess[p].topup] = 0
                /\ row_locks' = [row_locks EXCEPT !.topups[sess[p].topup] = p]
    /\ sess' = [sess EXCEPT ![p].pos = @ + 1]
    /\ pc' = [pc EXCEPT ![p] = "fl_approve"]
    /\ UNCHANGED <<db, locked, result>>

\* approve_topup, lines 420-421: the COMMIT after the flush, with the effects
\* of CommitApprove
CommitFlushedApprove(p) ==
    /\ pc[p] = "fl_approve"
    /\ sess[p].pos = Len(FlushSequence(p))
    /\ row_locks' = ReleaseRows(p)
    /\ topups' = [topups EXCEPT ![sess[p].topup] =
                     [@ EXCEPT !.amount_usd = sess[p].amount,
                               !.status = "approved",
                               !.approved_at = sess[p].stamp]]
    /\ balance_usd' = FlushBalance(sess[p].user, sess[p].bal,
                                   sess[p].bal + sess[p].amount)
    /\ logs' = Append(logs, ApprovedLog(sess[p].admin, sess[p].topup, sess[p].amount))
    /\ Return(p, "True")
    /\ UNCHANGED <<users, product_codes, products, language, is_banned, is_sold,
                   orders, locked, sess>>

\* --------------------------------------------------------------- bot.main
\* what an awaited call of main does: it returns, or it raises an Exception
\* or an exception that is not one (the task is cancelled, Ctrl-C)
Raises == {"Exception", "KeyboardInterrupt", "CancelledError"}
CallOutcomes == {"ok"} \cup Raises

\* main has completed this call
Called(p, call) == \E i \in DOMAIN sess[p].calls : sess[p].calls[i] = call

\* main leaves through the finally block, or returns at once before the
\* application exists
Exit(p, raised) ==
    /\ sess' = [sess EXCEPT ![p].raised = raised]
    /\ pc' = [pc EXCEPT ![p] = "m_finally"]
    /\ UNCHANGED result

\* main, lines 67-73: await init_db(); a failure is logged and main returns
\* (an exception that is not an Exception leaves main)
MainInitDb(p, outcome) ==
    /\ pc[p] = "start"
    /\ \A q \in Procs : sess[q].kind # "main"
    /\ IF outcome = "ok"
       THEN /\ sess' = [sess EXCEPT ![p] = [NoSess EXCEPT !.kind = "main",
                                                          !.calls = <<"init_db">>]]
            /\ pc' = [pc EXCEPT ![p] = "m_build"]
            /\ UNCHANGED result
       ELSE /\ sess' = [sess EXCEPT ![p] = [NoSess EXCEPT !.kind = "main",
                                                          !.raised = outcome]]
            /\ Return(p, IF outcome = "Exception" THEN "None" ELSE outcome)
    /\ UNCHANGED <<db, locked, row_locks>>

\* main, lines 75-101: the application is built and the handlers registered;
\* a failure of the build is logged and main returns
MainBuild(p, outcome) ==
    /\ pc[p] = "m_build"
    /\ IF outcome = "ok"
       THEN /\ sess' = [sess EXCEPT ![p].calls = Append(@, "build")]
            /\ pc' = [pc EXCEPT ![p] = "m_initialize"]
            /\ UNCHANGED result
       ELSE /\ sess' = [sess EXCEPT ![p].raised = outcome]
            /\ Return(p, IF outcome = "Exception" THEN "None" ELSE outcome)
    /\ UNCHANGED <<db, locked, row_locks>>

\* main, line 109: await application.initialize()
MainInitialize(p, outcome) ==
    /\ pc[p] = "m_initialize"
    /\ IF outcome = "ok"
       THEN /\ sess' = [sess EXCEPT ![p].calls = Append(@, "initialize")]
            /\ pc' = [pc EXCEPT ![p] = "m_start"]
            /\ UNCHANGED result
       ELSE Exit(p, outcome)
    /\ UNCHANGED <<db, locked, row_locks>>

\* main, line 110: await application.start(); application.running is true
\* once it has returned
MainStart(p, outcome) ==
    /\ pc[p] = "m_start"
    /\ IF outcome = "ok"
       THEN /\ sess' = [sess EXCEPT ![p].calls = Append(@, "start"),
                                    ![p].running = TRUE]
            /\ pc' = [pc EXCEPT ![p] = "m_start_polling"]
            /\ UNCHANGED result
       ELSE Exit(p, outcome)
    /\ UNCHANGED <<db, locked, row_locks>>

\* main, line 113: await application.updater.start_polling();
\* updater.running is true once it has returned
MainStartPolling(p, outcome) ==
    /\ pc[p] = "m_start_polling"
    /\ IF outcome = "ok"
       THEN /\ sess' = [sess EXCEPT ![p].calls = Append(@, "start_polling"),
                                    ![p].updater_running = TRUE]
            /\ pc' = [pc EXCEPT ![p] = "m_wait"]
            /\ UNCHANGED result
       ELSE Exit(p, outcome)
    /\ UNCHANGED <<db, locked, row_locks>>

\* main, lines 119-124: await stop_signal.wait() ends only by an exception
\* raised into it; nothing sets the event
MainWait(p, raised) ==
    /\ pc[p] = "m_wait"
    /\ Exit(p, raised)
    /\ UNCHANGED <<db, locked, row_locks>>

\* main, lines 127-128: "if application.updater.running: await
\* application.updater.stop()"
MutMainStopUpdater(p) ==
    /\ pc[p] = "m_finally"
    /\ sess' = [sess EXCEPT ![p].calls = IF sess[p].updater_running
                                         THEN Append(@, "updater.stop") ELSE @,
                            ![p].updater_running = FALSE]
    /\ pc' = [pc EXCEPT ![p] = "m_shutdown"]
    /\ UNCHANGED <<db, locked, row_locks, result>>
MainStopUpdater(p) ==
    /\ pc[p] = "m_finally"
    /\ sess' = [sess EXCEPT ![p].calls = IF sess[p].updater_running
                                         THEN Append(@, "updater.stop") ELSE @,
                            ![p].updater_running = FALSE]
    /\ pc' = [pc EXCEPT ![p] = "m_stop"]
    /\ UNCHANGED <<db, locked, row_locks, result>>

\* main, lines 129-130: "if application.running: await application.stop()"
MainStop(p) ==
    /\ pc[p] = "m_stop"
    /\ sess' = [sess EXCEPT ![p].calls = IF sess[p].running
                                         THEN Append(@, "stop") ELSE @,
                            ![p].running = FALSE]
    /\ pc' = [pc EXCEPT ![p] = "m_shutdown"]
    /\ UNCHANGED <<db, locked, row_locks, result>>

\* main, lines 123-124 and 131-132: await application.shutdown(); main
\* returns after KeyboardInterrupt or SystemExit, any other exception
\* leaves main
MainShutdown(p) ==
    /\ pc[p] = "m_shutdown"
    /\ sess' = [sess EXCEPT ![p].calls = Append(@, "shutdown")]
    /\ Return(p, IF sess[p].raised = "KeyboardInterrupt" THEN "None"
                 ELSE sess[p].raised)
    /\ UNCHANGED <<db, locked, row_locks>>

\* the application dispatches an update to its handler: the application is
\* running and the updater has fetched updates
Serving ==
    \E m \in Procs : /\ sess[m].kind = "main"
                      /\ sess[m].running
                      /\ Called(m, "start_polling")

\* -------------------------------------------------------------- translation
\* LanguageService.STRINGS with every key in every language, as shipped (two
\* of the languages and two of the keys; the Russian text transliterated)
STRINGS ==
    [en |-> [welcome |-> "Welcome to the Digital Store!",
             out_of_stock |-> "This product is currently out of stock."],
     ru |-> [welcome |-> "Dobro pozhalovat v Tsifrovoy Magazin!",
             out_of_stock |-> "Etogo tovara net v nalichii."]]

\* the tables the module may hold: each language with some of the keys (a
\* key is added to a language by adding an entry to its dictionary)
Tables ==
    {[lang \in DOMAIN STRINGS |-> [key \in keys[lang] |-> STRINGS[lang][key]]] :
        keys \in [DOMAIN STRINGS -> SUBSET DOMAIN STRINGS.en]}

\* languages and keys t may be called with: one language and one key that
\* no table holds
LangCodes == DOMAIN STRINGS \cup {"de"}
Keys == DOMAIN STRINGS.en \cup {"product_60_uc"}

\* LanguageService.t: STRINGS.get(lang, STRINGS["en"]).get(key, key)
LanguageService_t(strings, lang, key) ==
    LET table == IF lang \in DOMAIN strings THEN strings[lang] ELSE strings.en
    IN  IF key \in DOMAIN table THEN table[key] ELSE key

\* a handler calls LanguageService.t
Translate(p, strings, lang, key) ==
    /\ pc[p] = "start"
    /\ sess' = [sess EXCEPT ![p] = [NoSess EXCEPT !.kind = "t",
                                                  !.strings = strings,
                                                  !.lang = lang,
                                                  !.key = key,
                                                  !.text = LanguageService_t(strings, lang, key)]]
    /\ Return(p, "str")
    /\ UNCHANGED <<db, locked, row_locks>>

\* ------------------------------------------------------------ upload of codes
\* the payloads of all product_codes rows, committed
StoreCodes ==
    {unit_code(c) : c \in Units} \cup {product_codes[i].code : i \in DOMAIN product_codes}

\* add_codes: the first index after `from` whose stripped string is not empty
\* ("if not code_str: continue"), or Len + 1
RECURSIVE NextCode(_, _)
NextCode(codes_list, from) ==
    IF from >= Len(codes_list) THEN Len(codes_list) + 1
    ELSE IF strip(codes_list[from + 1]) = << >> THEN NextCode(codes_list, from + 1)
    ELSE from + 1

\* ProductService.add_codes is called
AddCodes(p, product_id, codes_list) ==
    /\ pc[p] = "start"
    /\ sess' = [sess EXCEPT ![p] = [NoSess EXCEPT !.kind = "add_codes",
                                                  !.product = product_id,
                                                  !.codes_list = codes_list]]
    /\ pc' = [pc EXCEPT ![p] = "up_loop"]
    /\ UNCHANGED <<db, locked, row_locks, result>>

\* add_codes, lines 142-155: the SELECT for the next non-blank code.  The
\* session does not autoflush, so the SELECT sees the committed rows and not
\* the rows this call has added; a code not found is added to the session
\* and counted
SelectExists(p) ==
    /\ pc[p] = "up_loop"
    /\ LET i == NextCode(sess[p].codes_list, sess[p].pos)
       IN  /\ i <= Len(sess[p].codes_list)
           /\ LET code_str == strip(sess[p].codes_list[i])
                  exists == code_str \in StoreCodes
              IN  sess' = [sess EXCEPT
                             ![p].pos = i,
                             ![p].new_codes = IF exists THEN @ ELSE Append(@, code_str),
                             ![p].count = IF exists THEN @ ELSE @ + 1]
    /\ UNCHANGED <<db, locked, row_locks, pc, result>>

\* unique=True on product_codes.code: the INSERTs of a flush fail when a
\* payload is in the table already or occurs twice among the new rows
MutCodeUniqueViolated(new_codes) == FALSE
CodeUniqueViolated(new_codes) ==
    \/ \E i \in DOMAIN new_codes : new_codes[i] \in StoreCodes
    \/ \E i, j \in DOMAIN new_codes : i # j /\ new_codes[i] = new_codes[j]

\* the ProductCode rows add_codes has added to its session
NewCodes(p) ==
    [i \in DOMAIN sess[p].new_codes |->
        [product_id |-> sess[p].product, code |-> sess[p].new_codes[i], is_sold |-> FALSE]]

\* add_codes, lines 155-156: the commit and "return count"; an IntegrityError
\* of the flush leaves the function, and the transaction inserts nothing
CommitCodes(p) ==
    /\ pc[p] = "up_loop"
    /\ NextCode(sess[p].codes_list, sess[p].pos) > Len(sess[p].codes_list)
    /\ IF CodeUniqueViolated(sess[p].new_codes)
       THEN /\ sess' = [sess EXCEPT ![p].raised = "IntegrityError"]
            /\ Return(p, "IntegrityError")
            /\ UNCHANGED product_codes
       ELSE /\ product_codes' = product_codes \o NewCodes(p)
            /\ Return(p, "count")
            /\ UNCHANGED sess
    /\ UNCHANGED <<users, products, language, is_banned, balance_usd, is_sold,
                   orders, topups, logs, locked, row_locks>>

\* PaymentService.create_topup_request: the TopUp row the commit inserts
MutAddTopUp(user_id) ==
    IF \E t \in DOMAIN topups : topups[t].user_id = user_id /\ topups[t].status = "pending"
    THEN topups
    ELSE Append(topups, PendingTopUp(user_id))
AddTopUp(user_id) == Append(topups, PendingTopUp(user_id))

\* confirm_payment_request: get_user_by_telegram_id and "lang = user.language",
\* which raises when the chat user has no row
MutPaidGetUser(p, telegram_id) ==
    /\ pc[p] = "start"
    /\ pc' = [pc EXCEPT ![p] = "pay_user"]
    /\ sess' = [sess EXCEPT ![p] = [NoSess EXCEPT !.kind = "paid",
                                                  !.user = telegram_id,
                                                  !.lang = "en"]]
    /\ UNCHANGED <<db, locked, row_locks, result>>
PaidGetUser(p, telegram_id) ==
    /\ pc[p] = "start"
    /\ IF telegram_id \in Users
       THEN /\ pc' = [pc EXCEPT ![p] = "pay_user"]
            /\ sess' = [sess EXCEPT ![p] = [NoSess EXCEPT !.kind = "paid",
                                                          !.user = telegram_id,
                                                          !.bal = balance_usd[telegram_id],
                                                          !.lang = language[telegram_id]]]
       ELSE /\ pc' = [pc EXCEPT ![p] = "db_raised"]
            /\ sess' = [sess EXCEPT ![p] = [NoSess EXCEPT !.kind = "paid",
                                                          !.user = telegram_id,
                                                          !.raised = "AttributeError"]]
    /\ UNCHANGED <<db, locked, row_locks, result>>

\* create_topup_request, lines 339-350: the SELECT of the user (a row exists,
\* or the handler had raised before), the new TopUp and the commit
CommitTopUp(p) ==
    /\ pc[p] = "pay_user"
    /\ topups' = AddTopUp(sess[p].user)
    /\ sess' = [sess EXCEPT ![p].topup = Len(topups) + 1]
    /\ pc' = [pc EXCEPT ![p] = "pay_notify"]
    /\ UNCHANGED <<users, product_codes, products, language, is_banned,
                   balance_usd, is_sold, orders, logs, locked, row_locks,
                   result>>

\* create_topup_request: the storage fails at the commit and the exception
\* leaves the get_db block
CommitTopUpFails(p) ==
    /\ pc[p] = "pay_user"
    /\ sess' = [sess EXCEPT ![p].fault = TRUE, ![p].raised = "SQLAlchemyError"]
    /\ pc' = [pc EXCEPT ![p] = "db_raised"]
    /\ UNCHANGED <<db, locked, row_locks, result>>

\* confirm_payment_request, lines 477-490: the notification to the admin chat
\* is sent, or the send raises and the except branch logs it
MutNotifyAdmin(p, sent) ==
    /\ pc[p] = "pay_notify"
    /\ sess' = [sess EXCEPT ![p].notified = IF sent THEN "sent" ELSE "failed",
                            ![p].raised = IF sent THEN "none" ELSE "TelegramError"]
    /\ pc' = [pc EXCEPT ![p] = IF sent THEN "db_exit" ELSE "db_raised"]
    /\ UNCHANGED <<db, locked, row_locks, result>>
NotifyAdmin(p, sent) ==
    /\ pc[p] = "pay_notify"
    /\ sess' = [sess EXCEPT ![p].notified = IF sent THEN "sent" ELSE "failed"]
    /\ pc' = [pc EXCEPT ![p] = "db_exit"]
    /\ UNCHANGED <<db, locked, row_locks, result>>

\* ------------------------------------------------------------------- get_db
\* get_db: the block has exited normally and "await session.commit()" returns
SessionCommit(p) ==
    /\ pc[p] = "db_exit"
    /\ sess' = [sess EXCEPT ![p].calls = Append(@, "commit")]
    /\ pc' = [pc EXCEPT ![p] = "db_closing"]
    /\ UNCHANGED <<db, locked, row_locks, result>>

\* get_db: "await session.commit()" raises
SessionCommitFails(p) ==
    /\ pc[p] = "db_exit"
    /\ sess' = [sess EXCEPT ![p].calls = Append(@, "commit"),
                            ![p].fault = TRUE,
                            ![p].raised = "SQLAlchemyError"]
    /\ pc' = [pc EXCEPT ![p] = "db_raised"]
    /\ UNCHANGED <<db, locked, row_locks, result>>

\* get_db: "except Exception": rollback, log, raise
MutSessionRollback(p) ==
    /\ pc[p] = "db_raised"
    /\ sess' = [sess EXCEPT ![p].calls = Append(@, "rollback"), ![p].raised = "none"]
    /\ locked' = Release(p)
    /\ UNCHANGED row_locks
    /\ pc' = [pc EXCEPT ![p] = "db_closing"]
    /\ UNCHANGED <<db, result>>
SessionRollback(p) ==
    /\ pc[p] = "db_raised"
    /\ sess' = [sess EXCEPT ![p].calls = Append(@, "rollback")]
    /\ locked' = Release(p)
    /\ UNCHANGED row_locks
    /\ pc' = [pc EXCEPT ![p] = "db_closing"]
    /\ UNCHANGED <<db, result>>

\* what the handler's caller sees once the get_db block is left: the
\* handler's own reply, or the exception, which handle_callback catches and
\* answers with its generic error text
Outcome(p) ==
    IF sess[p].raised # "none" THEN "unexpected_error"
    ELSE IF sess[p].kind = "paid" THEN "topup_submitted"
    ELSE "None"

\* get_db: "finally: await session.close()", and the reply that follows
SessionClose(p) ==
    /\ pc[p] = "db_closing"
    /\ sess' = [sess EXCEPT ![p].calls = Append(@, "close")]
    /\ Return(p, Outcome(p))
    /\ UNCHANGED <<db, locked, row_locks>>

\* ---------------------------------------------------------------- the system
Step(p) ==
    \/ \E u \in Users, i \in ProductIds : GetUser(p, u, i)
    \/ GetProduct(p)
    \/ SelectCode(p)
    \/ CommitOrder(p)
    \/ CommitOrderFails(p)
    \/ \E t \in TopUpIds, a \in Admins, m \in Amounts : SelectTopUp(p, t, a, m)
    \/ LoadTopUpUser(p)
    \/ CommitApprove(p)

Next ==
    \/ \E p \in Procs : Step(p)
    \/ \E u \in Users : CreateTopUpRequest(u)

Spec == Init /\ [][Next]_vars

\* handlers run one after the other: no invocation starts or moves while
\* another one is between its first statement and its return
Quiet(p) == \A q \in Procs \ {p} : pc[q] \in {"start", "done"}

SeqNext ==
    \/ \E p \in Procs : Quiet(p) /\ Step(p)
    \/ \E u \in Users : CreateTopUpRequest(u)

SeqSpec == Init /\ [][SeqNext]_vars

\* the purchase and top-up handlers together with the other handlers that
\* read or write the store, the administration of the catalogue and the
\* storage failing after a commit
StoreStep(p) ==
    \/ Step(p)
    \/ RefreshFails(p)
    \/ \E u \in Users, o \in OrderIds, m \in Methods : GetOrder(p, u, o, m)
    \/ SendOrder(p)
    \/ \E u \in Users, l \in Langs : SelectLanguageUser(p, u, l)
    \/ CommitLanguage(p)
    \/ \E u \in UserIds, a \in Admins : SelectBanUser(p, u, a)
    \/ CommitBan(p)
    \/ \E i \in Products, v \in Prices : SetPrice(p, i, v)
    \/ \E i \in Products : Deactivate(p, i)

StoreNext ==
    \/ \E p \in Procs : StoreStep(p)
    \/ \E u \in Users : CreateTopUpRequest(u)

StoreSpec == Init /\ [][StoreNext]_vars

\* every handler that reads or writes balances, units, orders and requests,
\* with the sends to the chat failing or not
BotStep(p) ==
    \/ StoreStep(p)
    \/ SendOrderFails(p)
    \/ SessionRollback(p)
    \/ SessionClose(p)
    \/ \E u \in Users, renamed \in BOOLEAN : StartSelectUser(p, u, renamed)
    \/ CommitUsername(p)
    \/ \E u \in Users : StatsGetUser(p, u)
    \/ SelectCount(p)
    \/ SelectSpent(p)
    \/ SelectTopUps(p)

BotNext ==
    \/ \E p \in Procs : BotStep(p)
    \/ \E u \in Users : CreateTopUpRequest(u)

BotSpec == Init /\ [][BotNext]_vars

\* The store after user 1 has bought unit 1 at its price: the order is
\* committed, the unit is sold, and the balance b that is left was credited as
\* b plus the price by the user's approved top-up.
SettledInit ==
    /\ products = [i \in Products |-> [price_usd |-> i, is_active |-> TRUE]]
    /\ language = [u \in Users |-> "en"]
    /\ is_banned = [u \in Users |-> FALSE]
    /\ balance_usd \in [Users -> InitBalances]
    /\ is_sold = [c \in Units |-> c = 1]
    /\ orders = <<[user_id |-> 1, product_id |-> code_product(1),
                   product_code_id |-> 1, price_usd |-> code_product(1),
                   delivery_type |-> "text", status |-> "completed"]>>
    /\ topups = [u \in Users |->
                   [user_id |-> u, status |-> "approved", approved_at |-> u,
                    amount_usd |-> balance_usd[u] + Spent(u)]]
    /\ logs = [u \in Users |-> ApprovedLog(1, u, balance_usd[u] + Spent(u))]
    /\ product_codes = << >>
    /\ users = << >>
    /\ locked = [c \in Units |-> 0]
    /\ row_locks = NoRowLocks
    /\ pc = [p \in Procs |-> "start"]
    /\ sess = [p \in Procs |-> NoSess]
    /\ result = [p \in Procs |-> "none"]

\* the handlers at work on a store that holds an order already
DeliverySpec == SettledInit /\ [][BotNext]_vars

\* /start from chats the bot has not seen, possibly at once
UserStep(p) ==
    \/ \E telegram_id \in Contacts, username \in Usernames :
            SelectUser(p, telegram_id, username)
    \/ CommitNewUser(p)
    \/ CommitRename(p)

UserNext == \E p \in Procs : UserStep(p)

UserSpec == Init /\ [][UserNext]_vars

\* the process of the bot: main, and the /start handler for the updates the
\* application dispatches
MainAdvance(p) ==
    \/ \E outcome \in CallOutcomes : MainBuild(p, outcome)
    \/ \E outcome \in CallOutcomes : MainInitialize(p, outcome)
    \/ \E outcome \in CallOutcomes : MainStart(p, outcome)
    \/ \E outcome \in CallOutcomes : MainStartPolling(p, outcome)
    \/ MainStopUpdater(p)
    \/ MainStop(p)
    \/ MainShutdown(p)

MainStep(p) ==
    \/ \E outcome \in CallOutcomes : MainInitDb(p, outcome)
    \/ MainAdvance(p)
    \/ \E raised \in Raises \ {"Exception"} : MainWait(p, raised)
    \/ \E u \in Users, renamed \in BOOLEAN :
            Serving /\ StartSelectUser(p, u, renamed)
    \/ CommitUsername(p)

MainNext == \E p \in Procs : MainStep(p)

MainSpec == Init /\ [][MainNext]_vars

\* every awaited call of main returns or raises; the wait for the stop
\* signal ends only when the process is told to stop
MainLiveSpec == MainSpec /\ \A p \in Procs : WF_vars(MainAdvance(p))

\* purchases whose reply may fail after the commit, approvals and deliveries
ReplyStep(p) ==
    \/ Step(p)
    \/ CommitOrderReplyFails(p)
    \/ SessionRollback(p)
    \/ SessionClose(p)
    \/ \E u \in Users, o \in OrderIds, m \in Methods : GetOrder(p, u, o, m)
    \/ SendOrder(p)

ReplyNext ==
    \/ \E p \in Procs : ReplyStep(p)
    \/ \E u \in Users : CreateTopUpRequest(u)

ReplySpec == Init /\ [][ReplyNext]_vars

\* purchases and approvals with the statements of their commits taken one
\* at a time
LockAdvance(p) ==
    \/ GetProduct(p)
    \/ SelectCode(p)
    \/ FlushOrder(p)
    \/ CommitFlushedOrder(p)
    \/ LoadTopUpUser(p)
    \/ FlushApprove(p)
    \/ CommitFlushedApprove(p)

LockStep(p) ==
    \/ \E u \in Users, i \in ProductIds : GetUser(p, u, i)
    \/ \E t \in TopUpIds, a \in Admins, m \in Amounts : SelectTopUp(p, t, a, m)
    \/ LockAdvance(p)

LockNext ==
    \/ \E p \in Procs : LockStep(p)
    \/ \E u \in Users : CreateTopUpRequest(u)

LockSpec == Init /\ [][LockNext]_vars

\* every statement the database runs returns, raises or waits for a lock
\* that is released
LockLiveSpec == LockSpec /\ \A p \in Procs : WF_vars(LockAdvance(p))

\* calls of the translation function, for every table, language and key
LangNext ==
    \E p \in Procs, strings \in Tables, lang \in LangCodes, key \in Keys :
        Translate(p, strings, lang, key)

LangSpec == Init /\ [][LangNext]_vars

\* uploads of codes by the admin tooling, possibly at once
UploadStep(p) ==
    \/ \E i \in Products, l \in CodeLists : AddCodes(p, i, l)
    \/ SelectExists(p)
    \/ CommitCodes(p)

UploadNext == \E p \in Procs : UploadStep(p)

UploadSpec == Init /\ [][UploadNext]_vars

\* chat users that press buttons: the registered ones and one with no row
ChatIds == Users \cup {3}

\* the buttons of the payment menu and the buy button, pressed by any chat
\* user, next to the purchases and approvals of the registered users
PayStep(p) ==
    \/ Step(p)
    \/ \E u \in ChatIds \ Users, i \in ProductIds : GetUser(p, u, i)
    \/ \E u \in ChatIds : PaidGetUser(p, u)
    \/ CommitTopUp(p)
    \/ CommitTopUpFails(p)
    \/ \E sent \in BOOLEAN : NotifyAdmin(p, sent)
    \/ SessionCommit(p)
    \/ SessionCommitFails(p)
    \/ SessionRollback(p)
    \/ SessionClose(p)

PayNext == \E p \in Procs : PayStep(p)

PaySpec == Init /\ [][PayNext]_vars

\* the steps of get_db after its block: the event loop resumes the task, and
\* each of commit, rollback and close returns or raises
SessionStep(p) ==
    \/ SessionCommit(p)
    \/ SessionCommitFails(p)
    \/ SessionRollback(p)
    \/ SessionClose(p)

PayLiveSpec == PaySpec /\ \A p \in Procs : WF_vars(SessionStep(p))

\* the steps of an invocation already started: the event loop resumes every
\* task whose awaited statement has completed, and the database completes
\* every statement it can execute
Advance(p) ==
    \/ GetProduct(p)
    \/ SelectCode(p)
    \/ CommitOrder(p)
    \/ CommitOrderFails(p)
    \/ LoadTopUpUser(p)
    \/ CommitApprove(p)

LiveSpec == Spec /\ \A p \in Procs : WF_vars(Advance(p))

\* ------------------------------------------------------- derived quantities
UnitsOf(product_id) == {c \in Units : code_product(c) = product_id}
SoldUnitsOf(product_id) == {c \in UnitsOf(product_id) : is_sold[c]}
OrdersOf(product_id) == {i \in DOMAIN orders : orders[i].product_id = product_id}

\* the create_order calls for a product that got past the balance check
Buyers(product_id) ==
    {p \in Procs : /\ sess[p].kind = "purchase"
                   /\ sess[p].product = product_id
                   /\ \/ pc[p] = "locked"
                      \/ sess[p].error_key \in {"out_of_stock", "generic_error",
                                                "success"}}
Returned(product_id, r) ==
    {p \in Procs : /\ sess[p].kind = "purchase"
                   /\ sess[p].product = product_id
                   /\ result[p] = r}
AllDone == \A p \in Procs : pc[p] = "done"

\* --------------------------------------------------------------------- C1
\* C1: no double-sell.  For every product, under every interleaving, at most
\* as many create_order calls return success as the product has units, every
\* successful call has an order of its own, no two orders reference the same
\* unit, and no unit is claimed by two calls in flight or claimed once sold.
NoDoubleSell ==
    /\ \A i \in Products :
         Cardinality(Returned(i, "success")) <= Cardinality(UnitsOf(i))
    /\ \A p \in Procs : result[p] = "success" =>
         \E i \in DOMAIN orders : /\ orders[i].product_code_id = sess[p].code
                                  /\ orders[i].user_id = sess[p].user
    /\ \A i, j \in DOMAIN orders :
         i # j => orders[i].product_code_id # orders[j].product_code_id
    /\ \A p, q \in Procs :
         (p # q /\ pc[p] = "locked" /\ pc[q] = "locked") => sess[p].code # sess[q].code
    /\ \A p \in Procs : pc[p] = "locked" => ~is_sold[sess[p].code]

\* a call holds the last unit of a product while a concurrent call for the
\* same product has been turned away
NoDoubleSellWitness ==
    \E p, q \in Procs :
        /\ p # q
        /\ pc[p] = "locked"
        /\ sess[q].product = sess[p].product
        /\ sess[q].kind = "purchase"
        /\ result[q] = "out_of_stock"

\* --------------------------------------------------------------------- C2
\* C2: the race.  Once every call has returned: if M create_order calls for a
\* product with N units got past the balance check, M > N, and no storage
\* failure hit any of them, then exactly N orders exist for the product,
\* exactly N distinct units of it are sold, N calls returned success and
\* exactly M - N returned out_of_stock.
RaceOutcome ==
    AllDone =>
      \A i \in Products :
        LET M == Cardinality(Buyers(i))
            N == Cardinality(UnitsOf(i))
        IN  ((\A p \in Buyers(i) : ~sess[p].fault) /\ M > N) =>
              /\ Cardinality(OrdersOf(i)) = N
              /\ Cardinality(SoldUnitsOf(i)) = N
              /\ Cardinality({orders[k].product_code_id : k \in OrdersOf(i)}) = N
              /\ Cardinality(Returned(i, "success")) = N
              /\ Cardinality(Returned(i, "out_of_stock")) = M - N

\* two distinct buyers went for a product with fewer units than buyers: one
\* holds the order, the other was told out_of_stock
RaceOutcomeWitness ==
    /\ AllDone
    /\ \E p, q \in Procs :
         /\ sess[p].user # sess[q].user
         /\ sess[p].product = sess[q].product
         /\ sess[p].product \in Products
         /\ Cardinality(Buyers(sess[p].product)) > Cardinality(UnitsOf(sess[p].product))
         /\ result[p] = "success"
         /\ result[q] = "out_of_stock"

\* --------------------------------------------------------------------- C3
\* the sold units and the orders correspond one to one, each order to a unit of
\* its own product
SoldOrderBijection ==
    /\ \A c \in Units :
         Cardinality({i \in DOMAIN orders : orders[i].product_code_id = c})
           = IF is_sold[c] THEN 1 ELSE 0
    /\ \A i \in DOMAIN orders :
         /\ orders[i].product_code_id \in Units
         /\ orders[i].product_id = code_product(orders[i].product_code_id)

\* C3: purchase atomicity.  Every committed state keeps the sold units and the
\* orders in one-to-one correspondence, and every commit either inserts an
\* order, marks that order's unit sold and lowers the buyer's balance by the
\* order's price, all three, or does none of them.
PurchaseAtomic ==
    [][ /\ SoldOrderBijection'
        /\ orders' # orders =>
             /\ Len(orders') = Len(orders) + 1
             /\ SubSeq(orders', 1, Len(orders)) = orders
             /\ LET o == orders'[Len(orders')]
                IN  /\ ~is_sold[o.product_code_id]
                    /\ is_sold'[o.product_code_id]
                    /\ balance_usd'[o.user_id] = balance_usd[o.user_id] - o.price_usd
        /\ is_sold' # is_sold => orders' # orders
      ]_vars

\* approve_topup calls on a request that returned True
ApprovedBy(topup_id) ==
    {p \in Procs : /\ sess[p].kind = "approve"
                   /\ sess[p].topup = topup_id
                   /\ result[p] = "True"}

\* every approval that has been issued carries a positive amount
PositiveApprovals ==
    \A p \in Procs : sess[p].kind = "approve" => sess[p].amount > 0

\* --------------------------------------------------------------------- C4
\* C4: ledger conservation.  In every committed state every user's balance is
\* the sum of the user's approved top-ups less the sum of the prices of the
\* user's orders (stated for approvals of positive amounts, each request
\* approved by one call).
LedgerConservation ==
    (PositiveApprovals /\ \A t \in TopUpIds : Cardinality(ApprovedBy(t)) <= 1) =>
        \A u \in Users : balance_usd[u] = Credited(u) - Spent(u)

\* --------------------------------------------------------------------- C5
\* C5: the debit is re-checked at commit.  While no top-up approval is involved,
\* a user's orders never cost more in total than the funds the user had, so of
\* two concurrent purchases that the balance covers only one of, at most one
\* succeeds.
DebitRecheckedAtCommit ==
    (\A p \in Procs : sess[p].kind # "approve") =>
        \A u \in Users : Spent(u) <= Credited(u)

\* --------------------------------------------------------------------- C6
\* C6: no negative balance.  As long as no approval carries a negative amount,
\* every balance stays >= 0 and a purchase commits as success only when its
\* price does not exceed the buyer's balance.
NoNegativeBalance ==
    [][ (\A p \in Procs : sess'[p].amount >= 0) =>
          /\ \A u \in Users : balance_usd'[u] >= 0
          /\ \A p \in Procs :
               (pc[p] = "locked" /\ result'[p] = "success") =>
                  balance_usd[sess[p].user] >= sess[p].price
      ]_vars

\* --------------------------------------------------------------------- C7
\* C7: the approval race.  Of the approve_topup calls on one request at most
\* one returns True (stated for approvals of positive amounts).
ApprovedOnce ==
    PositiveApprovals =>
        \A t \in TopUpIds : Cardinality(ApprovedBy(t)) <= 1

\* --------------------------------------------------------------------- C8
\* C8: approve_topup on a request id that does not exist or whose status is not
\* pending returns False at once and leaves the requests, the balances and the
\* admin action log as they were.
ApproveNonPendingNoOp ==
    [][ \A p \in Procs :
          ( /\ pc[p] = "start"
            /\ pc'[p] # "start"
            /\ sess'[p].kind = "approve"
            /\ ~( /\ sess'[p].topup \in DOMAIN topups
                  /\ topups[sess'[p].topup].status = "pending") )
          => /\ pc'[p] = "done"
             /\ result'[p] = "False"
             /\ UNCHANGED <<topups, balance_usd, logs, orders, is_sold>>
      ]_vars

\* a second approval, issued after the first one committed, returned False
ApproveNonPendingWitness ==
    \E p, q \in Procs :
        /\ p # q
        /\ result[p] = "True"
        /\ sess[q].kind = "approve"
        /\ sess[q].topup = sess[p].topup
        /\ sess[q].stamp > sess[p].stamp
        /\ result[q] = "False"
        /\ Cardinality(ApprovedBy(sess[p].topup)) = 1

\* --------------------------------------------------------------------- C9
\* C9: the top-up round trip.  The commit of approve_topup(request, admin, a)
\* returns True and, in that one step, makes the request approved with amount
\* a and an approval time, and raises the owner's balance by exactly a while
\* every other balance stays (stated for approvals of positive amounts).
ApproveRoundTrip ==
    [][ \A p \in Procs :
          (pc[p] = "ap_user" /\ pc'[p] = "done" /\ PositiveApprovals) =>
            LET t == sess[p].topup
                owner == topups[t].user_id
            IN  /\ result'[p] = "True"
                /\ topups'[t].status = "approved"
                /\ topups'[t].amount_usd = sess[p].amount
                /\ topups'[t].approved_at # None
                /\ balance_usd' = [balance_usd EXCEPT ![owner] = @ + sess[p].amount]
      ]_vars

\* -------------------------------------------------------------------- C10
\* C10: the happy path, handlers running one after the other.  A purchase of an
\* active product by a user whose balance covers the price goes on to claim a
\* unit; it claims one when the stock count is at least 1 and returns
\* out_of_stock when the count is 0; and its commit returns success, lowers
\* the balance by exactly the price, lowers the stock count by exactly 1 and
\* appends an order recording the user, the product, the unit and the price.
HappyPath ==
    [][ \A p \in Procs :
          LET u == sess[p].user
              i == sess[p].product
          IN
          /\ ( /\ pc[p] = "got_user" /\ pc'[p] # "got_user"
               /\ is_active(i)
               /\ balance_usd[u] >= price_usd(i) )
             => pc'[p] = "in_order"
          /\ (pc[p] = "in_order" /\ pc'[p] # "in_order" /\ get_stock_count(i) >= 1)
             => pc'[p] = "locked"
          /\ (pc[p] = "in_order" /\ pc'[p] # "in_order" /\ get_stock_count(i) = 0)
             => (result'[p] = "out_of_stock" /\ UNCHANGED db)
          /\ (pc[p] = "locked" /\ pc'[p] = "done" /\ ~sess'[p].fault)
             => /\ result'[p] = "success"
                /\ balance_usd' = [balance_usd EXCEPT ![u] = @ - price_usd(i)]
                /\ get_stock_count(i)' = get_stock_count(i) - 1
                /\ orders' = Append(orders,
                      [user_id |-> u, product_id |-> i,
                       product_code_id |-> sess[p].code, price_usd |-> price_usd(i),
                       delivery_type |-> "text", status |-> "completed"])
      ]_vars

\* a purchase took a product's last unit and the next purchase of the product
\* was told out_of_stock
HappyPathWitness ==
    \E p, q \in Procs :
        /\ result[p] = "success"
        /\ balance_usd[sess[p].user] = sess[p].bal - price_usd(sess[p].product)
        /\ get_stock_count(sess[p].product) = 0
        /\ sess[q].kind = "purchase"
        /\ sess[q].product = sess[p].product
        /\ sess[q].bal >= price_usd(sess[q].product)
        /\ result[q] = "out_of_stock"

\* -------------------------------------------------------------------- C11
\* C11: business-rule failures have no side effects.  Every step of a
\* purchase attempt other than the commit of its order leaves every balance,
\* every sold flag and the orders (the whole database) as they were, and an
\* attempt that ends with insufficient_balance or out_of_stock ends in such a
\* step, has never claimed a unit and holds no row lock.
NoSideEffects ==
    [][ \A p \in Procs :
          (sess'[p].kind = "purchase" /\ pc'[p] # pc[p]) =>
            /\ (pc[p] # "locked") => UNCHANGED db
            /\ result'[p] \in {"insufficient_balance", "out_of_stock"} =>
                 /\ pc[p] # "locked"
                 /\ UNCHANGED <<db, locked>>
                 /\ sess'[p].code = 0
                 /\ \A c \in Units : locked'[c] # p
      ]_vars

\* a buyer whose balance covers the price was told out_of_stock while nothing
\* has been sold: the balance is what it was and no order exists
NoSideEffectsWitness ==
    \E q \in Procs :
        /\ sess[q].error_key = "out_of_stock"
        /\ sess[q].price > 0
        /\ sess[q].bal >= sess[q].price
        /\ balance_usd[sess[q].user] = sess[q].bal
        /\ orders = << >>
        /\ \A c \in Units : ~is_sold[c]

\* -------------------------------------------------------------------- C12
\* C12: a storage failure is atomic.  When a step of create_order after the
\* unit was selected raises, the call returns generic_error, the database is
\* what it was before the call (no debit, no order), and the selected unit is
\* unsold and unclaimed again.
StorageFailureAtomic ==
    [][ \A p \in Procs :
          (pc[p] = "locked" /\ pc'[p] = "done" /\ sess'[p].fault) =>
            /\ result'[p] = "generic_error"
            /\ sess'[p].error_key = "generic_error"
            /\ UNCHANGED db
            /\ ~is_sold'[sess[p].code]
            /\ locked'[sess[p].code] = 0
      ]_vars

\* -------------------------------------------------------------------- C13
\* units of the product that are unsold and not claimed by another call
AvailableTo(p, product_id) ==
    {c \in UnitsOf(product_id) : ~is_sold[c] /\ locked[c] \notin (Procs \ {p})}

\* C13: the precondition order.  When the handler has loaded the product: a
\* missing or inactive product ends the attempt with out_of_stock whatever
\* the balance and the stock; else a loaded balance below the price ends it
\* with insufficient_balance whatever the stock; else the attempt goes on,
\* and ends with out_of_stock exactly when no unit is available.
PreconditionOrder ==
    [][ \A p \in Procs :
          LET i == sess[p].product
          IN
          /\ (pc[p] = "got_user" /\ pc'[p] # "got_user") =>
                IF ~is_active(i)
                THEN pc'[p] = "done" /\ result'[p] = "out_of_stock"
                ELSE IF sess[p].bal < price_usd(i)
                THEN pc'[p] = "done" /\ result'[p] = "insufficient_balance"
                ELSE pc'[p] = "in_order"
          /\ (pc[p] = "in_order" /\ pc'[p] # "in_order") =>
                IF AvailableTo(p, i) = {}
                THEN pc'[p] = "done" /\ result'[p] = "out_of_stock"
                ELSE pc'[p] = "locked"
      ]_vars

\* a user bought the last unit of an active product and, with the balance that
\* purchase left, asked for the product again: no stock and not enough
\* balance, and the answer was insufficient_balance
PreconditionOrderWitness ==
    \E p, q \in Procs :
        /\ p # q
        /\ result[q] = "success"
        /\ result[p] = "insufficient_balance"
        /\ sess[p].user = sess[q].user
        /\ sess[p].product = sess[q].product
        /\ sess[p].bal = sess[q].bal - sess[q].price
        /\ is_active(sess[p].product)
        /\ get_stock_count(sess[p].product) = 0
        /\ Len(topups) = Cardinality(Users)

\* -------------------------------------------------------------------- C14
\* C14 as stated: once every call has returned, a create_order call that
\* returned out_of_stock (the product was active and the balance covered the
\* price) leaves no unit of its product unsold.
OutOfStockMeansNoUnit ==
    AllDone =>
      \A p \in Procs :
        sess[p].error_key = "out_of_stock" => get_stock_count(sess[p].product) = 0

\* the purchases of a product whose transaction failed and left nothing behind
FailedBuyers(product_id) ==
    {q \in Procs : /\ sess[q].kind = "purchase"
                   /\ sess[q].product = product_id
                   /\ sess[q].error_key = "generic_error"
                   /\ ~is_sold[sess[q].code]}

\* once every call has returned, a product that turned a buyer away and still
\* has an unsold unit had a claimant whose transaction failed
UnsoldOnlyAfterFailure ==
    AllDone =>
      \A p \in Procs :
        (sess[p].error_key = "out_of_stock" /\ get_stock_count(sess[p].product) > 0)
        => FailedBuyers(sess[p].product) # {}

\* C14 amended: create_order returns out_of_stock only when, at its SELECT,
\* every unit of the product is sold or claimed by another create_order call
\* in flight; and a unit of the product is still unsold once every call has
\* returned only if a claimant's transaction failed.
OutOfStockOnlyWhenClaimed ==
    [][ /\ \A p \in Procs :
             (pc[p] = "in_order" /\ result'[p] = "out_of_stock") =>
                \A c \in UnitsOf(sess[p].product) :
                   \/ is_sold[c]
                   \/ /\ locked[c] \in Procs \ {p}
                      /\ pc[locked[c]] = "locked"
                      /\ sess[locked[c]].code = c
        /\ UnsoldOnlyAfterFailure'
      ]_vars

\* a buyer was turned away while another call held the product's last unit,
\* that call's commit failed, and the unit is unsold and unclaimed
OutOfStockWitness ==
    \E p, q \in Procs :
        /\ AllDone
        /\ sess[p].error_key = "out_of_stock"
        /\ q \in FailedBuyers(sess[p].product)
        /\ locked[sess[q].code] = 0
        /\ get_stock_count(sess[p].product) > 0

\* -------------------------------------------------------------------- C15
\* C15: the claim of a unit never blocks.  A create_order call at its SELECT
\* can always take its step, whatever other calls hold; the step claims a unit
\* no other call holds or returns out_of_stock at once; and every call that
\* entered create_order returns.
NonBlockingClaim ==
    /\ [](\A p \in Procs : pc[p] = "in_order" => ENABLED SelectCode(p))
    /\ [][ \A p \in Procs :
             (pc[p] = "in_order" /\ pc'[p] # "in_order") =>
                \/ /\ pc'[p] = "locked"
                   /\ locked[sess'[p].code] = 0
                   /\ ~is_sold[sess'[p].code]
                   /\ code_product(sess'[p].code) = sess[p].product
                \/ /\ pc'[p] = "done"
                   /\ result'[p] = "out_of_stock"
          ]_vars
    /\ \A p \in Procs : (pc[p] = "in_order") ~> (pc[p] = "done")

\* two users are inside create_order for the same product: one holds a unit
\* in its open transaction, the other has returned already
NonBlockingClaimWitness ==
    \E p, q \in Procs :
        /\ sess[p].user # sess[q].user
        /\ sess[p].product = sess[q].product
        /\ pc[q] = "locked"
        /\ sess[p].error_key = "out_of_stock"
        /\ pc[p] = "done"

PriceSnapshot ==
    [][ /\ \A p \in Procs :
             (pc[p] = "locked" /\ pc'[p] = "done" /\ orders' # orders) =>
                LET o == orders'[Len(orders')]
                IN  /\ o.user_id = sess[p].user
                    /\ o.price_usd > 0
                    /\ balance_usd'[o.user_id] = sess[p].bal - o.price_usd
        /\ products' # products =>
             \A i \in DOMAIN orders :
                i \in DOMAIN orders' /\ orders'[i].price_usd = orders[i].price_usd
      ]_vars

\* an order was created and debited at one price, the product's price was
\* changed afterwards, and the order still carries the price it was debited at
PriceSnapshotWitness ==
    \E p, q \in Procs :
        /\ result[p] = "success"
        /\ Len(orders) = 1
        /\ orders[1].product_id = sess[p].product
        /\ balance_usd[sess[p].user] = sess[p].bal - orders[1].price_usd
        /\ sess[q].kind = "set_price"
        /\ sess[q].product = sess[p].product
        /\ sess[q].stamp = Len(orders) + Len(logs) + 1
        /\ price_usd(sess[p].product) # orders[1].price_usd

\* -------------------------------------------------------------------- C18
\* C18: the current price is charged.  The price a purchase records on its
\* order and takes off the balance is the product's price as committed at the
\* moment the order commits.
CurrentPriceCharged ==
    [][ \A p \in Procs :
          (pc[p] = "locked" /\ pc'[p] = "done" /\ orders' # orders) =>
             LET o == orders'[Len(orders')]
             IN  /\ o.price_usd = price_usd(o.product_id)
                 /\ sess[p].bal - balance_usd'[o.user_id] = price_usd(o.product_id)
      ]_vars

\* -------------------------------------------------------------------- C19
\* C19: the unit state is one-way.  No step of any operation turns a sold unit
\* unsold; a step that turns a unit sold is the commit of the create_order
\* call that had claimed that unit, it inserts the order of that unit, and it
\* turns no other unit.
UnitOneWay ==
    [][ \A c \in Units :
          /\ is_sold[c] => is_sold'[c]
          /\ (~is_sold[c] /\ is_sold'[c]) =>
               /\ \E p \in Procs : /\ pc[p] = "locked"
                                   /\ pc'[p] = "done"
                                   /\ sess[p].code = c
               /\ Len(orders') = Len(orders) + 1
               /\ orders'[Len(orders')].product_code_id = c
               /\ \A d \in Units \ {c} : is_sold'[d] = is_sold[d]
      ]_vars

\* a unit was sold, its order was delivered afterwards, and the unit is sold
UnitOneWayWitness ==
    \E p, q \in Procs :
        /\ result[p] = "success"
        /\ result[q] = "delivered"
        /\ sess[q].code = sess[p].code
        /\ sess[q].code \in Units
        /\ is_sold[sess[p].code]

\* -------------------------------------------------------------------- C20
\* C20: a top-up request is written once.  Once a request is approved, no
\* step changes its status, its amount or its approval time (stated for
\* approvals whose amount is not negative).
TopUpWrittenOnce ==
    [][ (\A p \in Procs : sess'[p].amount >= 0) =>
          \A t \in DOMAIN topups :
             topups[t].status = "approved" =>
                (t \in DOMAIN topups' /\ topups'[t] = topups[t])
      ]_vars

\* -------------------------------------------------------------------- C21
\* the create_topup_request calls that have committed
Requested == {p \in Procs : sess[p].kind = "paid" /\ sess[p].topup # 0}

\* C21: RequestTopUp is purely additive.  Every create_topup_request call for
\* a registered user that commits appends exactly one request, pending, of
\* amount 0 and owned by that user, and changes no balance and no existing
\* request; a call whose commit fails changes nothing; and every call, a
\* repeated press of the same user included, has a request of its own.
RequestTopUpAdditive ==
    [][ /\ \A p \in Procs :
             (sess[p].kind = "paid" /\ pc[p] = "pay_user" /\ pc'[p] # "pay_user") =>
                IF pc'[p] = "pay_notify"
                THEN /\ Len(topups') = Len(topups) + 1
                     /\ SubSeq(topups', 1, Len(topups)) = topups
                     /\ topups'[Len(topups')] =
                          [user_id |-> sess[p].user, amount_usd |-> 0,
                           status |-> "pending", approved_at |-> None]
                     /\ sess'[p].topup = Len(topups')
                     /\ balance_usd' = balance_usd
                     /\ <<products, language, is_banned, is_sold, orders, logs,
                          product_codes>>' =
                          <<products, language, is_banned, is_sold, orders, logs,
                            product_codes>>
                ELSE db' = db
        /\ \A p, q \in Requested' :
             /\ topups'[sess'[p].topup].user_id = sess'[p].user
             /\ p # q => sess'[p].topup # sess'[q].topup
      ]_vars

\* the same user pressed "I Paid" twice: two pending requests of that user
RequestTopUpWitness ==
    \E p, q \in Requested :
        /\ p # q
        /\ sess[p].user = sess[q].user
        /\ topups[sess[p].topup].status = "pending"
        /\ topups[sess[q].topup].status = "pending"
        /\ balance_usd[sess[p].user] = Credited(sess[p].user)

\* -------------------------------------------------------------------- C22
\* C22: payload uniqueness.  In every reachable state, after any sequence or
\* interleaving of add_codes uploads to the same or to different products, no
\* two units of the store carry the same payload string.
PayloadUnique ==
    /\ \A i, j \in DOMAIN product_codes :
         i # j => product_codes[i].code # product_codes[j].code
    /\ \A i \in DOMAIN product_codes, c \in Units :
         product_codes[i].code # unit_code(c)
    /\ \A c, d \in Units : c # d => unit_code(c) # unit_code(d)

\* two uploads to different products carried the same new payload at once:
\* one inserted it, the other was turned down by the unique index
PayloadUniqueWitness ==
    \E p, q \in Procs :
        /\ p # q
        /\ sess[p].kind = "add_codes" /\ sess[q].kind = "add_codes"
        /\ sess[p].product # sess[q].product
        /\ result[p] = "count" /\ result[q] = "IntegrityError"
        /\ \E i \in DOMAIN sess[p].new_codes, j \in DOMAIN sess[q].new_codes :
             sess[p].new_codes[i] = sess[q].new_codes[j]
        /\ \E i \in DOMAIN product_codes :
             /\ product_codes[i].product_id = sess[p].product
             /\ product_codes[i].code \in {sess[q].new_codes[j] : j \in DOMAIN sess[q].new_codes}

\* -------------------------------------------------------------------- C23
\* the stripped, non-blank strings of a codes_list
Wanted(codes_list) ==
    {strip(codes_list[i]) : i \in DOMAIN codes_list} \ {<< >>}

\* C23: add_codes ignores duplicates and reports what it added.  For every
\* input list, blank entries, codes already in the store and codes repeated
\* within the list included, the call completes without error, adds each
\* stripped non-blank code that was not in the store exactly once, as an unsold
\* unit of the given product, and returns the number of units it added.
AddCodesIgnoresDuplicates ==
    [][ \A p \in Procs :
          (sess[p].kind = "add_codes" /\ pc[p] = "up_loop" /\ pc'[p] = "done") =>
             LET added == SubSeq(product_codes', Len(product_codes) + 1, Len(product_codes'))
                 missing == Wanted(sess[p].codes_list) \ StoreCodes
             IN  /\ result'[p] = "count"
                 /\ SubSeq(product_codes', 1, Len(product_codes)) = product_codes
                 /\ {added[i].code : i \in DOMAIN added} = missing
                 /\ Len(added) = Cardinality(missing)
                 /\ \A i \in DOMAIN added :
                      added[i].product_id = sess[p].product /\ ~added[i].is_sold
                 /\ sess'[p].count = Len(added)
      ]_vars

\* -------------------------------------------------------------------- C24
\* deliver_order calls for an order that sent the payload and the receipt
Delivered(order_id) ==
    {p \in Procs : /\ sess[p].kind = "deliver"
                   /\ sess[p].order = order_id
                   /\ result[p] = "delivered"}

NotificationFireAndForget ==
    \A p \in Procs :
        (sess[p].kind = "paid" /\ sess[p].notified = "failed") =>
            /\ sess[p].topup \in DOMAIN topups
            /\ topups[sess[p].topup].user_id = sess[p].user
            /\ \/ topups[sess[p].topup] = PendingTopUp(sess[p].user)
               \/ ApprovedBy(sess[p].topup) # {}
            /\ sess[p].raised # "none" => sess[p].fault
            /\ pc[p] \in {"db_exit", "db_closing", "db_raised", "done"}
            /\ (pc[p] = "done" /\ ~sess[p].fault) => result[p] = "topup_submitted"

\* a press whose notification failed has returned: the request is pending
\* and the user was sent the confirmation
NotificationWitness ==
    \E p \in Procs :
        /\ sess[p].kind = "paid"
        /\ sess[p].notified = "failed"
        /\ pc[p] = "done"
        /\ result[p] = "topup_submitted"
        /\ topups[sess[p].topup] = PendingTopUp(sess[p].user)

\* -------------------------------------------------------------------- C26
\* the step is the commit of a create_order call of the user
OrderCommits(user_id) ==
    \E p \in Procs : /\ sess[p].kind = "purchase"
                      /\ sess[p].user = user_id
                      /\ pc[p] = "locked"
                      /\ pc'[p] = "done"
                      /\ Len(orders') = Len(orders) + 1

\* the step is the commit of an approve_topup call for a request of the user
ApproveCommits(user_id) ==
    \E p \in Procs : /\ sess[p].kind = "approve"
                      /\ sess[p].user = user_id
                      /\ pc[p] = "ap_user"
                      /\ pc'[p] = "done"

\* C26: the mutation rule.  A user's balance is lowered only by a committing
\* create_order of that user and raised only by a committing approve_topup
\* for that user; a unit's sold flag is written only by a committing
\* create_order; and get_or_create_user on an existing user, set_language,
\* ban_user, create_topup_request, get_user_statistics and deliver_order
\* leave every balance and every unit unchanged (stated for approvals of
\* positive amounts).
MutationRule ==
    [][ PositiveApprovals' =>
          /\ \A u \in Users :
               /\ balance_usd'[u] < balance_usd[u] => OrderCommits(u)
               /\ balance_usd'[u] > balance_usd[u] => ApproveCommits(u)
          /\ is_sold' # is_sold => \E u \in Users : OrderCommits(u)
          /\ \A p \in Procs :
               ( /\ pc'[p] # pc[p]
                 /\ sess'[p].kind \in {"start", "language", "ban", "statistics",
                                       "deliver"} ) =>
                    balance_usd' = balance_usd /\ is_sold' = is_sold
          /\ (topups' # topups /\ pc' = pc) =>
               balance_usd' = balance_usd /\ is_sold' = is_sold
      ]_vars

\* -------------------------------------------------------------------- C27
\* the buy and "I Paid" presses of a chat user that has no User row
Unregistered ==
    {p \in Procs : sess[p].kind \in {"purchase", "paid"} /\ sess[p].user \notin Users}

\* C27: unregistered user.  No step of a buy press or an "I Paid" press of a
\* chat user without a User row changes a balance, a unit, an order, a request
\* or a lock; the press creates no order and no request; and it ends, after
\* the rollback and the close of its session, with the generic error reply of
\* handle_callback, which the exception does not leave.
UnregisteredUser ==
    [][ \A p \in Unregistered' :
          pc'[p] # pc[p] =>
             /\ db' = db
             /\ locked' = locked
             /\ sess'[p].topup = 0 /\ sess'[p].code = 0
             /\ sess'[p].raised = "AttributeError"
             /\ pc'[p] = "done" =>
                   /\ result'[p] = "unexpected_error"
                   /\ sess'[p].calls = <<"rollback", "close">>
      ]_vars

\* an unregistered chat user pressed buy and "I Paid": both presses were
\* answered with the generic error and the store holds what it held
UnregisteredWitness ==
    \E p, q \in Unregistered :
        /\ sess[p].kind = "purchase" /\ sess[q].kind = "paid"
        /\ result[p] = "unexpected_error" /\ result[q] = "unexpected_error"
        /\ orders = << >>
        /\ Len(topups) = Cardinality(Users)

\* -------------------------------------------------------------------- C28
\* C28: statistics are a read-only, correct aggregation.  No step of
\* get_user_statistics changes the store.  Its text is "no history" exactly
\* when the count of orders and the sum of top-ups it read are both 0.  And
\* when no purchase and no approval has committed since the call loaded the
\* user, the figures are those of the store: the number of the user's orders,
\* the sum of those orders' recorded prices, the sum of the amounts of the
\* user's approved requests alone, and the user's balance.
StatisticsCorrect ==
    [][ \A p \in Procs :
          (pc'[p] # pc[p] /\ sess'[p].kind = "statistics") =>
             /\ db' = db
             /\ locked' = locked
             /\ pc'[p] = "done" =>
                   LET u == sess'[p].user
                       mine == {i \in DOMAIN orders : orders[i].user_id = u}
                   IN  /\ result'[p] = "stats_no_history" <=>
                            (sess'[p].total_orders = 0 /\ sess'[p].total_topup = 0)
                       /\ result'[p] \in {"stats_no_history", "stats"}
                       /\ sess'[p].stamp = utcnow =>
                            /\ sess'[p].total_orders = Cardinality(mine)
                            /\ sess'[p].total_spent = Spent(u)
                            /\ sess'[p].total_topup = Credited(u)
                            /\ sess'[p].bal = balance_usd[u]
                            /\ result'[p] = "stats_no_history" <=>
                                 (mine = {} /\ Credited(u) = 0)
      ]_vars

\* the statistics of a user with an order, an approved and a pending request
\* were reported
StatisticsWitness ==
    \E p \in Procs :
        /\ sess[p].kind = "statistics"
        /\ result[p] = "stats"
        /\ sess[p].stamp = utcnow
        /\ sess[p].total_orders = 1
        /\ sess[p].total_spent > 0
        /\ sess[p].total_topup > 0
        /\ \E t \in DOMAIN topups :
             topups[t].user_id = sess[p].user /\ topups[t].status = "pending"

\* -------------------------------------------------------------------- C29
\* C29: the audit log is append-only and tied to its action.  No step changes
\* or removes an AdminActionLog entry, and a step adds at most one.  The commit
\* of an approve_topup call that returns True adds the entry of that approval
\* together with the approved request; the commit of a ban_user call on an
\* existing user adds the entry of that ban together with the flag; an
\* approve_topup that returns False and a ban_user on a missing user add none
\* and change nothing; and no other step adds an entry.
AuditLogAppendOnly ==
    [][ /\ Len(logs') \in {Len(logs), Len(logs) + 1}
        /\ SubSeq(logs', 1, Len(logs)) = logs
        /\ \A p \in Procs :
             pc'[p] # pc[p] =>
                /\ (sess'[p].kind = "approve" /\ result'[p] = "True") =>
                      /\ logs' = Append(logs, ApprovedLog(sess'[p].admin, sess'[p].topup,
                                                         sess'[p].amount))
                      /\ topups'[sess'[p].topup].status = "approved"
                      /\ topups'[sess'[p].topup].amount_usd = sess'[p].amount
                /\ (sess'[p].kind = "approve" /\ result'[p] = "False") => db' = db
                /\ (sess'[p].kind = "ban" /\ pc'[p] = "done") =>
                      IF sess'[p].user \in Users
                      THEN /\ logs' = Append(logs, BannedLog(sess'[p].admin, sess'[p].user))
                           /\ is_banned'[sess'[p].user]
                      ELSE db' = db
        /\ logs' # logs =>
             \E p \in Procs : /\ pc'[p] = "done" /\ pc[p] # "done"
                               /\ \/ sess'[p].kind = "approve" /\ result'[p] = "True"
                                  \/ sess'[p].kind = "ban" /\ sess'[p].user \in Users
      ]_vars

\* an approval that returned True and a ban of an existing user have
\* committed: the log holds their two entries after the earlier ones
AuditLogWitness ==
    \E p, q \in Procs :
        /\ sess[p].kind = "approve" /\ result[p] = "True"
        /\ sess[q].kind = "ban" /\ pc[q] = "done" /\ sess[q].user \in Users
        /\ Len(logs) = Cardinality(Users) + 2
        /\ ApprovedLog(sess[p].admin, sess[p].topup, sess[p].amount)
             \in {logs[i] : i \in DOMAIN logs \ (1..Cardinality(Users))}
        /\ BannedLog(sess[q].admin, sess[q].user) \in {logs[i] : i \in DOMAIN logs}

\* -------------------------------------------------------------------- C30
\* the calls get_db makes on its session, in order, are a beginning of one of
\* its three paths
SessionPaths ==
    {<<"commit", "close">>, <<"rollback", "close">>, <<"commit", "rollback", "close">>}
SessionOrder ==
    \A p \in Procs :
        /\ \E path \in SessionPaths, n \in 0..3 :
              n <= Len(path) /\ sess[p].calls = SubSeq(path, 1, n)
        /\ pc[p] = "db_exit" => sess[p].calls = << >> /\ sess[p].raised = "none"
        /\ pc[p] = "db_raised" => sess[p].calls \in {<< >>, <<"commit">>}
        /\ pc[p] = "db_raised" => sess[p].raised # "none"
        /\ (pc[p] = "done" /\ sess[p].calls # << >>) =>
              /\ sess[p].calls \in SessionPaths
              /\ sess[p].raised # "none" <=> sess[p].calls[Len(sess[p].calls) - 1] = "rollback"
              /\ sess[p].raised # "none" <=> result[p] = "unexpected_error"

GetOrCreateIdempotent ==
    /\ \A p \in Procs :
          (sess[p].kind = "get_or_create_user" /\ pc[p] = "done") =>
              /\ Cardinality(UserRows(sess[p].user)) = 1
              /\ result[p] = "user"
    /\ \A i \in DOMAIN users : users[i].balance_usd = 0

\* -------------------------------------------------------------------- C33
\* C33: delivery goes only to the buyer.  deliver_order sends the payload of
\* an order's unit only when the requesting chat user is the user recorded on
\* the order: a delivery request that names another user's order never hands
\* that order's payload to the requester.
DeliveryOnlyToBuyer ==
    \A p \in Procs :
        (sess[p].kind = "deliver" /\ result[p] = "delivered") =>
            orders[sess[p].order].user_id = sess[p].user

\* -------------------------------------------------------------------- C34
\* C34: a credit never lowers a balance.  For every amount approve_topup
\* accepts, the balance of the owning user after a successful approval is at
\* least the balance before it, so no approval drives a balance below zero.
CreditNeverLowers ==
    [][ \A user_id \in Users :
          ApproveCommits(user_id) =>
              /\ balance_usd'[user_id] >= balance_usd[user_id]
              /\ balance_usd[user_id] >= 0 => balance_usd'[user_id] >= 0
      ]_vars

\* -------------------------------------------------------------------- C35
\* C35: banned users cannot buy.  No step of a purchase attempt of a user
\* whose ban flag was set when the attempt loaded the user creates an order,
\* debits a balance or sells a unit, and no such attempt ends in success:
\* after ban_user(u) has committed, every later attempt of u fails without
\* side effects.
BannedCannotBuy ==
    [][ \A p \in Procs :
          (sess'[p].kind = "purchase" /\ sess'[p].is_banned /\ pc'[p] # pc[p]) =>
              /\ orders' = orders
              /\ balance_usd' = balance_usd
              /\ is_sold' = is_sold
              /\ result'[p] # "success"
      ]_vars

\* -------------------------------------------------------------------- C36
\* the outcomes defined for a call of this kind
Outcomes(kind) ==
    IF kind = "purchase"
    THEN {"success", "insufficient_balance", "out_of_stock", "generic_error"}
    ELSE {"True", "False"}

\* the calls that wait for a row lock another session holds
Waiting == {p \in Procs : pc[p] \notin {"start", "done"} /\ ~ENABLED LockAdvance(p)}

\* C36: no deadlock.  Under any interleaving of concurrent create_order and
\* approve_topup calls (same or different users, products and requests), the
\* calls in flight never all wait, no call waits forever, and every call
\* returns one of its defined outcomes: success, insufficient_balance,
\* out_of_stock or generic_error for a purchase, True or False for an
\* approval.
NoDeadlock ==
    /\ []((\E p \in Procs : pc[p] \notin {"start", "done"}) =>
             (\E q \in Procs : ENABLED LockAdvance(q)))
    /\ \A p \in Procs :
          (pc[p] # "start") ~> (pc[p] = "done" /\ result[p] \in Outcomes(sess[p].kind))

\* a purchase waits with its unit claimed for the row of its user, which an
\* approval for the same user has updated and not yet committed
NoDeadlockWitness ==
    \E p, q \in Procs :
        /\ p \in Waiting
        /\ sess[p].kind = "purchase" /\ sess[q].kind = "approve"
        /\ pc[p] = "locked"
        /\ row_locks.users[sess[p].user] = q

\* -------------------------------------------------------------------- C37
\* the purchases for which create_order has returned success
Confirmed == {p \in Procs : sess[p].kind = "purchase" /\ sess[p].error_key = "success"}

\* the orders that reference the unit call p claimed
OrderOf(p) == {o \in DOMAIN orders : orders[o].product_code_id = sess[p].code}

\* C37: a confirmed purchase is durable even if the reply fails.  Once
\* create_order has returned success, the order is there, completed, for the
\* buyer and at the price debited, and its unit is sold, whatever happens in
\* the handler afterwards; the steps that follow a failed send (the rollback
\* and the close of get_db, the error reply) change no row; and a delivery
\* request for the order's id finds the order and hands out its unit.
ReplyFailureDurable ==
    /\ [](\A p \in Confirmed :
            /\ is_sold[sess[p].code]
            /\ \E o \in OrderOf(p) : /\ orders[o].user_id = sess[p].user
                                     /\ orders[o].price_usd = sess[p].price
                                     /\ orders[o].status = "completed")
    /\ [][ \A p \in Confirmed :
             /\ pc'[p] # pc[p] => db' = db
             /\ \A q \in Procs, o \in OrderOf(p) :
                   (sess'[q].kind = "deliver" /\ sess'[q].order = o) =>
                       /\ pc[q] = "start" => pc'[q] = "dl_order"
                       /\ (pc[q] = "dl_order" /\ pc'[q] = "done") =>
                             /\ result'[q] = "delivered"
                             /\ sess'[q].code = sess[p].code
          ]_vars

\* the send after a successful create_order raised, the handler ended with
\* the error reply, and the order was delivered by its id afterwards
ReplyFailureWitness ==
    \E p \in Confirmed, q \in Procs :
        /\ sess[p].raised = "TelegramError"
        /\ result[p] = "unexpected_error"
        /\ sess[q].kind = "deliver"
        /\ sess[q].order \in OrderOf(p)
        /\ result[q] = "delivered"
        /\ balance_usd[sess[p].user] = sess[p].bal - sess[p].price

\* -------------------------------------------------------------------- C38
\* the calls of main up to the start of polling, in the order of the code
Startup == <<"init_db", "build", "initialize", "start", "start_polling">>

\* the calls of the finally block after these calls of the startup
Shutdown(calls) ==
    (IF \E i \in DOMAIN calls : calls[i] = "start_polling"
     THEN <<"updater.stop">> ELSE << >>)
    \o (IF \E i \in DOMAIN calls : calls[i] = "start" THEN <<"stop">> ELSE << >>)
    \o <<"shutdown">>

====
